---- MODULE Spec2Model ----
(***************************************************************************)
(* Haisa Focus: the timer engine (components/timer/useTimer.ts) over the   *)
(* persistent store (lib/storage.ts), and the ad waterfall orchestrator    *)
(* (components/ads/AdOrchestrator.ts).  The two do not interact: the timer *)
(* specifications leave the orchestrator as constructed with the default   *)
(* configuration, the orchestrator specifications leave the timer unmounted.*)
(*                                                                         *)
(* Time is in milliseconds.  `wall` is Date.now(); performance.now() is    *)
(* wall - origin, where origin is the time origin of the current page.     *)
(* localStorage is taken to be available (isLocalStorageAvailable() is     *)
(* true) and React runs every state updater once (production build).       *)
(* Of a SessionData the model keeps duration, mode and completed; id       *)
(* (random), startTime and endTime are left out.  An operation called in   *)
(* a state where the code returns currentState is a stuttering step.       *)
(***************************************************************************)
EXTENDS Integers, Sequences, FiniteSets, TLC

\* ---------------------------------------------------------------- constants
POMODORO_WORK_MS == 25 * 60 * 1000

POMODORO_BREAK_MS == 5 * 60 * 1000

\* ------------------------------------------------------------------- bounds
\* The clock advances in multiples of the break phase (5 minutes), up to
\* MaxClockSteps of them: a work phase is five steps long.
MaxClockSteps == 5

\* The longest single advance of the clock, in steps.
MaxJump == 2

\* The number of SessionData records kept in a run.
MaxSessions == 1

\* The number of page reloads in a run.
MaxReloads == 1

\* config.mobileSlotLimit of the orchestrator under test.
MobileSlotLimit == 1

\* The number of triggerLoad calls accepted in a run.
MaxCalls == 2

\* The number of IntersectionObservers connected at a time.
MaxObservers == 2

\* The number of load() promises that have lost the race against the 5 s
\* timer and are left unsettled at a time; one that loses it beyond this
\* number settles right after the timer.
MaxLate == 1

\* play() calls awaiting a promise at a time.
MaxPlays == 1

\* Pan-animation loops scheduled at a time.
MaxLoops == 2

\* Sessions recorded for one date.
MaxPerDate == 2

\* ------------------------------------------------------------ value helpers
\* `number | null`: <<>> is null, <<n>> is the number n.
Null == <<>>

Some(n) == <<n>>

\* JSON values as they come back from JSON.parse.
JNull == [t |-> "null"]

JUndef == [t |-> "undefined"]

JNum(n) == [t |-> "number", v |-> n]

JStr(s) == [t |-> "string", s |-> s]

JBool(b) == [t |-> "boolean", b |-> b]

validStates == {"idle", "running", "paused", "finished"}

validModes == {"stopwatch", "pomodoro"}

validPhases == {"work", "break"}

\* The text of a stored item that JSON.parse rejects.
Garbage == [json |-> FALSE]

\* Faulty variant: the default phase is 'break'.
DEFAULT_STATE_BreakPhase ==
  [state |-> "idle", mode |-> "stopwatch", startTimestamp |-> Null,
   pausedElapsed |-> 0, pomodoroPhase |-> "break",
   pomodoroRemainingMs |-> POMODORO_WORK_MS]

DEFAULT_STATE ==
  [state |-> "idle", mode |-> "stopwatch", startTimestamp |-> Null,
   pausedElapsed |-> 0, pomodoroPhase |-> "work",
   pomodoroRemainingMs |-> POMODORO_WORK_MS]

VARIABLES
  wall,                 \* Date.now()
  origin,               \* time origin of the page: performance.now() = wall - origin
  mounted,              \* the restore-on-mount effect of the current page has run
  internalState,        \* useState<TimerInternalState>
  elapsedMs,            \* useState(0), exposed to the caller
  remainingMs,          \* useState(POMODORO_WORK_MS), exposed to the caller
  sessionStartTimeRef,  \* useRef<number | null>
  timerItem,            \* localStorage['haisa_timer_snapshot']: <<>> or <<text>>
  sessions,             \* the SessionData handed to saveSession, in order
  reloads,              \* page reloads so far
  ranMs,                \* time run since the last start() from idle on this page
  ranBeforeRefresh,     \* ranMs of a timer that was running when the page was
                        \* reloaded, until the next mount; Null otherwise
  sessionLimit          \* how many sessions the run records; fixed by Init

timerVars == <<wall, origin, mounted, internalState, elapsedMs, remainingMs,
               sessionStartTimeRef, timerItem, sessions, reloads, ranMs,
               ranBeforeRefresh, sessionLimit>>

VARIABLES
  innerWidth,           \* window.innerWidth
  enabledProviders,     \* the providers p with config.providers[p].enabled
  adapters,             \* the providers with a registered adapter whose
                        \* isAvailable() is true
  slotStates,           \* Map<AdSlotId, AdSlotState>
  observers,            \* Map<AdSlotId, IntersectionObserver>: "none" where
                        \* the map has no entry, else whether the observer
                        \* in the map is "connected" or "disconnected"
  orphans,              \* per slot, the connected observers that registerSlot
                        \* has replaced in the map
  loadCallbacks,        \* Set<LoadCallback>
  adsenseActive,
  loadedSlots,          \* Set<AdSlotId>
  mobileSlotCount,
  calls,                \* the accepted triggerLoad calls, in order of acceptance
  notified,             \* the rounds of notifyStateChange of the last step
  lateSettled           \* history of the last step, kept where .watched is
                        \* set: .last holds what a load() promise settled
                        \* with if it settled after its timeout had fired

adVars == <<innerWidth, enabledProviders, adapters, slotStates, observers,
            orphans, loadCallbacks, adsenseActive, loadedSlots,
            mobileSlotCount, calls, notified, lateSettled>>

VARIABLE
  audio                 \* the useAudioEngine hook: its useState values
                        \* (isPlaying, currentMood, trackIndex, volume,
                        \* is8DEnabled, progress), what its refs hold, and the
                        \* play() calls that are awaiting (plays)

VARIABLES
  retrieved,            \* the read of localStorage made last through
                        \* getTimerSnapshot() or getLastSession(), and what
                        \* it returned
  dailyStatsItem        \* localStorage['haisa_daily_stats']: <<>> or <<text>>

vars == <<timerVars, adVars, audio, retrieved, dailyStatsItem, dailyStatsItem>>

\* Faulty variant: reads the wall clock instead of the page's performance clock.
performanceNow_WallClock == wall

performanceNow == wall - origin

\* ------------------------------------------------------------------ storage
\* Faulty variant: the timestamp is not written.
JSONstringify_NoTimestamp(s) ==
  [json |-> TRUE,
   state |-> JStr(s.state),
   mode |-> JStr(s.mode),
   startTimestamp |-> JNull,
   pausedElapsed |-> JNum(s.pausedElapsed),
   pomodoroPhase |-> JStr(s.pomodoroPhase),
   pomodoroRemainingMs |-> JNum(s.pomodoroRemainingMs)]

JSONstringify(s) ==
  [json |-> TRUE,
   state |-> JStr(s.state),
   mode |-> JStr(s.mode),
   startTimestamp |-> IF s.startTimestamp = Null THEN JNull
                      ELSE JNum(s.startTimestamp[1]),
   pausedElapsed |-> JNum(s.pausedElapsed),
   pomodoroPhase |-> JStr(s.pomodoroPhase),
   pomodoroRemainingMs |-> JNum(s.pomodoroRemainingMs)]

\* typeof data === 'object' for a parsed value that is not null: an object
\* is the record of its fields, every other JSON value carries its type in t.
IsObject(data) == "t" \notin DOMAIN data

\* Faulty variant: any string passes as a mode.
isValidTimerSnapshot_AnyMode(data) ==
  /\ IsObject(data)
  /\ data.state.t = "string" /\ data.state.s \in validStates
  /\ data.mode.t = "string"
  /\ data.startTimestamp.t \in {"null", "number"}
  /\ data.pausedElapsed.t = "number"
  /\ data.pomodoroPhase.t = "string" /\ data.pomodoroPhase.s \in validPhases
  /\ data.pomodoroRemainingMs.t = "number"

isValidTimerSnapshot(data) ==
  /\ IsObject(data)
  /\ data.state.t = "string" /\ data.state.s \in validStates
  /\ data.mode.t = "string" /\ data.mode.s \in validModes
  /\ data.startTimestamp.t \in {"null", "number"}
  /\ data.pausedElapsed.t = "number"
  /\ data.pomodoroPhase.t = "string" /\ data.pomodoroPhase.s \in validPhases
  /\ data.pomodoroRemainingMs.t = "number"

\* The snapshot getTimerSnapshot returns, as <<snapshot>>, or Null.
getTimerSnapshot(item) ==
  IF item # <<>> /\ item[1].json /\ isValidTimerSnapshot(item[1])
  THEN Some([state |-> item[1].state.s,
             mode |-> item[1].mode.s,
             startTimestamp |-> IF item[1].startTimestamp.t = "null" THEN Null
                                ELSE Some(item[1].startTimestamp.v),
             pausedElapsed |-> item[1].pausedElapsed.v,
             pomodoroPhase |-> item[1].pomodoroPhase.s,
             pomodoroRemainingMs |-> item[1].pomodoroRemainingMs.v])
  ELSE Null

saveTimerSnapshot(snapshot) == timerItem' = <<JSONstringify(snapshot)>>

\* Faulty variant: the stored snapshot is left in place.
clearTimerSnapshot_Keep == UNCHANGED timerItem

clearTimerSnapshot == timerItem' = <<>>

\* Faulty variant: the snapshot is written without the accumulated elapsed time.
persistState_DropElapsed(newState) ==
  saveTimerSnapshot([newState EXCEPT !.pausedElapsed = 0])

persistState(newState) == saveTimerSnapshot(newState)

JSONstringifySession(session) ==
  [json |-> TRUE,
   id |-> JStr(session.id),
   startTime |-> JNum(session.startTime),
   endTime |-> JNum(session.endTime),
   duration |-> JNum(session.duration),
   mode |-> JStr(session.mode),
   completed |-> JBool(session.completed)]

isValidSessionData(data) ==
  /\ IsObject(data)
  /\ data.id.t = "string"
  /\ data.startTime.t = "number"
  /\ data.endTime.t = "number"
  /\ data.duration.t = "number"
  /\ data.mode.t = "string" /\ data.mode.s \in validModes
  /\ data.completed.t = "boolean"

\* The session getLastSession returns, as <<session>>, or Null.
getLastSession(item) ==
  IF item # <<>> /\ item[1].json /\ isValidSessionData(item[1])
  THEN Some([id |-> item[1].id.s,
             startTime |-> item[1].startTime.v,
             endTime |-> item[1].endTime.v,
             duration |-> item[1].duration.v,
             mode |-> item[1].mode.s,
             completed |-> item[1].completed.b])
  ELSE Null

\* A run records at most sessionLimit sessions.
saveSession(session) ==
  /\ Len(sessions) < sessionLimit
  /\ sessions' = Append(sessions, session)

\* ------------------------------------------------------------- computations
\* Faulty variant: a running timer forgets the time accumulated before the last resume.
calculateElapsed_NoAccumulator(state) ==
  IF state.state = "idle" THEN 0
  ELSE IF state.state \in {"paused", "finished"} THEN state.pausedElapsed
  ELSE IF state.state = "running" /\ state.startTimestamp # Null
       THEN performanceNow - state.startTimestamp[1]
  ELSE state.pausedElapsed

calculateElapsed(state) ==
  IF state.state = "idle" THEN 0
  ELSE IF state.state \in {"paused", "finished"} THEN state.pausedElapsed
  ELSE IF state.state = "running" /\ state.startTimestamp # Null
       THEN state.pausedElapsed + (performanceNow - state.startTimestamp[1])
  ELSE state.pausedElapsed

Max(a, b) == IF a >= b THEN a ELSE b

\* Faulty variant: the time run since the last start or resume is ignored.
calculateRemaining_IgnoreElapsed(state) ==
  IF state.mode # "pomodoro" THEN 0
  ELSE IF state.state = "idle"
       THEN (IF state.pomodoroPhase = "work" THEN POMODORO_WORK_MS
             ELSE POMODORO_BREAK_MS)
  ELSE state.pomodoroRemainingMs

calculateRemaining(state) ==
  IF state.mode # "pomodoro" THEN 0
  ELSE IF state.state = "idle"
       THEN (IF state.pomodoroPhase = "work" THEN POMODORO_WORK_MS
             ELSE POMODORO_BREAK_MS)
  ELSE IF state.state \in {"paused", "finished"} THEN state.pomodoroRemainingMs
  ELSE IF state.state = "running" /\ state.startTimestamp # Null
       THEN Max(0, state.pomodoroRemainingMs
                     - (performanceNow - state.startTimestamp[1]))
  ELSE state.pomodoroRemainingMs

PhaseDuration(phase) ==
  IF phase = "work" THEN POMODORO_WORK_MS ELSE POMODORO_BREAK_MS

\* Faulty variant: the phase does not flip.
NextPhase_Same(phase) == phase

NextPhase(phase) == IF phase = "work" THEN "break" ELSE "work"

\* -------------------------------------------------------------------- Init
\* What localStorage may hold when the page is first opened.
StoredObjects ==
  [json : {TRUE},
   state : {JStr(s) : s \in validStates \cup {"bogus"}},
   mode : {JStr(m) : m \in validModes},
   startTimestamp : {JNull, JNum(POMODORO_BREAK_MS), JUndef},
   pausedElapsed : {JNum(0 - POMODORO_BREAK_MS), JNum(POMODORO_BREAK_MS), JStr("0")},
   pomodoroPhase : {JStr(p) : p \in validPhases},
   pomodoroRemainingMs : {JNum(POMODORO_BREAK_MS)}]

\* No read of localStorage has been made through the storage functions.
StorageUnread == retrieved = [call |-> "none"]

\* ------------------------------------- ad orchestrator: configuration
Providers == {"adsense", "adsterra", "monetag"}

\* isMobile(): window.innerWidth < 1024.
MOBILE_BREAKPOINT == 1024

\* The AdConfig the orchestrator is constructed with: a lazy slot with three
\* providers, AdSense in second place, and a non-lazy slot with AdSense only.
\* Of an AdSlotConfig the model keeps id, providers, enabledDevices and lazy.
config ==
  [slots |->
     << [id |-> "AD_TOP_LEADERBOARD",
         providers |-> <<"adsterra", "adsense", "monetag">>,
         enabledDevices |-> {"desktop", "mobile"},
         lazy |-> TRUE],
        [id |-> "AD_BOTTOM",
         providers |-> <<"adsense">>,
         enabledDevices |-> {"desktop", "mobile"},
         lazy |-> FALSE] >>,
   mobileSlotLimit |-> MobileSlotLimit]

SlotIds == {config.slots[i].id : i \in DOMAIN config.slots}

\* The slot ids callers pass: the configured ones and one that is not.
SlotArgs == SlotIds \cup {"AD_INCONTENT_1"}

\* The callbacks clients subscribe with.
Callbacks == {"cb1", "cb2"}

\* initializeSlotStates(): the state every configured slot begins in, and
\* the 'loading' state triggerLoad sets on acceptance.
loadingState ==
  [loaded |-> FALSE, filled |-> FALSE, currentProvider |-> Null, error |-> Null]

\* The orchestrator right after its constructor.
AdOrchestratorNew ==
  /\ slotStates = [s \in SlotIds |-> loadingState]
  /\ observers = [s \in SlotIds |-> "none"]
  /\ orphans = [s \in SlotIds |-> 0]
  /\ loadCallbacks = {}
  /\ adsenseActive = FALSE
  /\ loadedSlots = {}
  /\ mobileSlotCount = 0
  /\ calls = <<>>
  /\ notified = <<>>
  /\ lateSettled = [watched |-> FALSE, last |-> Null]

\* A desktop page with DEFAULT_AD_CONFIG: every provider disabled.
DefaultAdsPage ==
  /\ AdOrchestratorNew
  /\ innerWidth = MOBILE_BREAKPOINT
  /\ enabledProviders = {}
  /\ adapters = {}

\* ------------------------------------------------------- audio engine
Moods == {"happy", "neutral", "sad"}

\* The playlists the hook is given: a track is named by its src.
playlists ==
  [happy |-> <<"happy/1.mp3", "happy/2.mp3", "happy/3.mp3">>,
   neutral |-> <<"neutral/1.mp3", "neutral/2.mp3">>,
   sad |-> <<"sad/1.mp3">>]

\* Playlists of three tracks or more, of different lengths.
fullPlaylists ==
  [happy |-> <<"happy/1.mp3", "happy/2.mp3", "happy/3.mp3", "happy/4.mp3">>,
   neutral |-> <<"neutral/1.mp3", "neutral/2.mp3", "neutral/3.mp3">>,
   sad |-> <<"sad/1.mp3", "sad/2.mp3", "sad/3.mp3">>]

\* The levels callers pass to setVolume.
Levels == {-20, 35, 150}

\* useState and useRef initial values of useAudioEngine.  audioContext is
\* Null or <<state>>; gain is Null or <<gain.value * 100>>; pan is Null or
\* <<pan.value>> (the compressor exists when the panner does); element is
\* Null or <<[src, paused, N]>> with N the playlist.length its 'ended' and
\* 'error' listeners closed over; source tells whether sourceNodeRef is set;
\* links are the connections of the graph; panLoops counts the animate
\* callbacks scheduled with requestAnimationFrame; tracking tells whether
\* the progress interval is set; playlists is the hook's argument.
useAudioEngine(lists) ==
  [isPlaying |-> FALSE, currentMood |-> "neutral", trackIndex |-> 0,
   volume |-> 80, is8DEnabled |-> FALSE, progress |-> 0,
   audioContext |-> Null, gain |-> Null, pan |-> Null, element |-> Null,
   source |-> FALSE, links |-> {}, panAnimationRef |-> Null, panLoops |-> 0,
   tracking |-> FALSE, plays |-> <<>>, playlists |-> lists]

useAudioEngineNew == useAudioEngine(playlists)

\* The hook before its first mount: useState/useRef initial values.
useTimerNew ==
  /\ wall = 0
  /\ origin = 0
  /\ mounted = FALSE
  /\ internalState = DEFAULT_STATE
  /\ elapsedMs = 0
  /\ remainingMs = POMODORO_WORK_MS
  /\ sessionStartTimeRef = Null
  /\ sessions = <<>>
  /\ reloads = 0
  /\ ranMs = Null
  /\ ranBeforeRefresh = Null

\* The page before its first mount.
InitPage == useTimerNew /\ sessionLimit = MaxSessions

Init ==
  /\ InitPage
  /\ timerItem \in {<<>>, <<Garbage>>} \cup {<<o>> : o \in StoredObjects}
  /\ DefaultAdsPage
  /\ audio = useAudioEngineNew
  /\ StorageUnread /\ dailyStatsItem = <<>>

\* First visit: nothing is stored yet, so every snapshot read later was
\* written by the engine itself.
InitFresh == InitPage /\ timerItem = <<>> /\ DefaultAdsPage /\ audio = useAudioEngineNew /\ StorageUnread /\ dailyStatsItem = <<>>

\* ----------------------------------------------------------------- actions
\* Time passes.
Advance ==
  \E k \in 1..MaxJump :
    /\ wall + k * POMODORO_BREAK_MS <= MaxClockSteps * POMODORO_BREAK_MS
    /\ wall' = wall + k * POMODORO_BREAK_MS
    /\ ranMs' = IF ranMs # Null /\ mounted /\ internalState.state = "running"
                THEN Some(ranMs[1] + k * POMODORO_BREAK_MS) ELSE ranMs
    /\ UNCHANGED <<adVars, audio, retrieved, dailyStatsItem, sessionLimit, ranBeforeRefresh, reloads, origin, mounted, internalState, elapsedMs, remainingMs,
                   sessionStartTimeRef, timerItem, sessions>>

\* The restore effect that runs once when the hook mounts.
Mount ==
  /\ ~mounted
  /\ mounted' = TRUE
  /\ LET savedSnapshot == getTimerSnapshot(timerItem) IN
       IF savedSnapshot # Null
       THEN LET restored == savedSnapshot[1]
                restoredState ==
                  IF restored.state = "running" /\ restored.startTimestamp # Null
                  THEN [restored EXCEPT !.startTimestamp = Some(performanceNow)]
                  ELSE restored
            IN /\ internalState' = restoredState
               /\ elapsedMs' = calculateElapsed(restoredState)
               /\ remainingMs' = calculateRemaining(restoredState)
               /\ UNCHANGED timerItem
       ELSE /\ clearTimerSnapshot
            /\ UNCHANGED <<internalState, elapsedMs, remainingMs>>
  /\ ranBeforeRefresh' = Null
  /\ UNCHANGED <<adVars, audio, retrieved, dailyStatsItem, sessionLimit, reloads, wall, origin, sessionStartTimeRef, sessions, ranMs>>

\* The page is reloaded: memory is lost, localStorage is kept.
Reload ==
  /\ mounted
  /\ reloads < MaxReloads
  /\ reloads' = reloads + 1
  /\ mounted' = FALSE
  /\ origin' = wall
  /\ internalState' = DEFAULT_STATE
  /\ elapsedMs' = 0
  /\ remainingMs' = POMODORO_WORK_MS
  /\ sessionStartTimeRef' = Null
  /\ ranMs' = Null
  /\ ranBeforeRefresh' = IF internalState.state = "running" THEN ranMs ELSE Null
  /\ UNCHANGED <<adVars, audio, retrieved, dailyStatsItem, sessionLimit, wall, timerItem, sessions>>

start ==
  /\ mounted
  /\ IF internalState.state \notin {"idle", "finished"}
     THEN UNCHANGED <<internalState, sessionStartTimeRef, timerItem, ranMs>>
     ELSE LET newState ==
                [internalState EXCEPT
                   !.state = "running",
                   !.startTimestamp = Some(performanceNow),
                   !.pausedElapsed =
                      IF internalState.state = "finished"
                      THEN internalState.pausedElapsed ELSE 0,
                   !.pomodoroRemainingMs =
                      IF internalState.state = "finished"
                      THEN PhaseDuration(internalState.pomodoroPhase)
                      ELSE internalState.pomodoroRemainingMs]
          IN /\ sessionStartTimeRef' = Some(wall)
             /\ persistState(newState)
             /\ internalState' = newState
             /\ ranMs' = IF internalState.state = "idle" THEN Some(0) ELSE ranMs
  /\ UNCHANGED <<adVars, audio, retrieved, dailyStatsItem, sessionLimit, ranBeforeRefresh, reloads, wall, origin, mounted, elapsedMs, remainingMs, sessions>>

pause ==
  /\ mounted
  /\ IF internalState.state # "running"
     THEN UNCHANGED <<internalState, elapsedMs, remainingMs, timerItem>>
     ELSE LET currentElapsed == calculateElapsed(internalState)
              currentRemaining == calculateRemaining(internalState)
              newState ==
                [internalState EXCEPT
                   !.state = "paused",
                   !.startTimestamp = Null,
                   !.pausedElapsed = currentElapsed,
                   !.pomodoroRemainingMs = currentRemaining]
          IN /\ elapsedMs' = currentElapsed
             /\ remainingMs' = currentRemaining
             /\ persistState(newState)
             /\ internalState' = newState
  /\ UNCHANGED <<adVars, audio, retrieved, dailyStatsItem, sessionLimit, ranBeforeRefresh, reloads, wall, origin, mounted, sessionStartTimeRef, sessions, ranMs>>

resume ==
  /\ mounted
  /\ IF internalState.state # "paused"
     THEN UNCHANGED <<internalState, timerItem>>
     ELSE LET newState ==
                [internalState EXCEPT
                   !.state = "running",
                   !.startTimestamp = Some(performanceNow)]
          IN /\ persistState(newState)
             /\ internalState' = newState
  /\ UNCHANGED <<adVars, audio, retrieved, dailyStatsItem, sessionLimit, ranBeforeRefresh, reloads, wall, origin, mounted, elapsedMs, remainingMs,
                 sessionStartTimeRef, sessions, ranMs>>

stop ==
  /\ mounted
  /\ IF internalState.state = "idle"
     THEN UNCHANGED <<internalState, elapsedMs, remainingMs,
                      sessionStartTimeRef, timerItem, sessions, ranMs>>
     ELSE LET finalElapsed == calculateElapsed(internalState) IN
          /\ IF sessionStartTimeRef # Null /\ finalElapsed > 0
             THEN saveSession([duration |-> finalElapsed,
                               mode |-> internalState.mode,
                               completed |-> FALSE])
             ELSE UNCHANGED sessions
          /\ internalState' = [DEFAULT_STATE EXCEPT !.mode = internalState.mode]
          /\ sessionStartTimeRef' = Null
          /\ elapsedMs' = 0
          /\ remainingMs' = IF internalState.mode = "pomodoro"
                            THEN POMODORO_WORK_MS ELSE 0
          /\ clearTimerSnapshot
          /\ ranMs' = Null
  /\ UNCHANGED <<adVars, audio, retrieved, dailyStatsItem, sessionLimit, ranBeforeRefresh, reloads, wall, origin, mounted>>

reset ==
  /\ mounted
  /\ internalState' =
       [DEFAULT_STATE EXCEPT
          !.mode = internalState.mode,
          !.pomodoroRemainingMs = IF internalState.mode = "pomodoro"
                                  THEN POMODORO_WORK_MS ELSE 0]
  /\ sessionStartTimeRef' = Null
  /\ elapsedMs' = 0
  /\ remainingMs' = IF internalState.mode = "pomodoro" THEN POMODORO_WORK_MS ELSE 0
  /\ clearTimerSnapshot
  /\ ranMs' = Null
  /\ UNCHANGED <<adVars, audio, retrieved, dailyStatsItem, sessionLimit, ranBeforeRefresh, reloads, wall, origin, mounted, sessions>>

setMode(newMode) ==
  /\ mounted
  /\ IF internalState.state # "idle"
     THEN UNCHANGED <<internalState, elapsedMs, remainingMs, timerItem>>
     ELSE LET newState ==
                [DEFAULT_STATE EXCEPT
                   !.mode = newMode,
                   !.pomodoroRemainingMs = IF newMode = "pomodoro"
                                           THEN POMODORO_WORK_MS ELSE 0]
          IN /\ elapsedMs' = 0
             /\ remainingMs' = IF newMode = "pomodoro" THEN POMODORO_WORK_MS ELSE 0
             /\ persistState(newState)
             /\ internalState' = newState
  /\ UNCHANGED <<adVars, audio, retrieved, dailyStatsItem, sessionLimit, ranBeforeRefresh, reloads, wall, origin, mounted, sessionStartTimeRef, sessions, ranMs>>

\* One animation frame.
tick ==
  /\ mounted
  /\ IF internalState.state # "running"
     THEN UNCHANGED <<internalState, elapsedMs, remainingMs, timerItem, sessions>>
     ELSE LET newElapsed == calculateElapsed(internalState) IN
          /\ elapsedMs' = newElapsed
          /\ IF internalState.mode # "pomodoro"
             THEN UNCHANGED <<internalState, remainingMs, timerItem, sessions>>
             ELSE LET newRemaining == calculateRemaining(internalState) IN
                  /\ remainingMs' = newRemaining
                  /\ IF newRemaining > 0
                     THEN UNCHANGED <<internalState, timerItem, sessions>>
                     ELSE LET nextPhase == NextPhase(internalState.pomodoroPhase)
                              nextRemainingMs == PhaseDuration(nextPhase)
                              phaseDuration ==
                                PhaseDuration(internalState.pomodoroPhase)
                              newState ==
                                [internalState EXCEPT
                                   !.state = "finished",
                                   !.pausedElapsed = newElapsed,
                                   !.pomodoroPhase = nextPhase,
                                   !.pomodoroRemainingMs = nextRemainingMs,
                                   !.startTimestamp = Null]
                          IN /\ IF sessionStartTimeRef # Null
                                THEN saveSession([duration |-> phaseDuration,
                                                  mode |-> "pomodoro",
                                                  completed |-> TRUE])
                                ELSE UNCHANGED sessions
                             /\ persistState(newState)
                             /\ internalState' = newState
  /\ UNCHANGED <<adVars, audio, retrieved, dailyStatsItem, sessionLimit, ranBeforeRefresh, reloads, wall, origin, mounted, sessionStartTimeRef, ranMs>>

\* The step is the autonomous phase-complete transition.
PhaseCompleteStep ==
  tick /\ internalState.state = "running" /\ internalState'.state = "finished"

Next ==
  \/ Advance
  \/ Mount
  \/ Reload
  \/ start
  \/ pause
  \/ resume
  \/ stop
  \/ reset
  \/ \E newMode \in validModes : setMode(newMode)
  \/ tick

Spec == Init /\ [][Next]_vars

SpecFresh == InitFresh /\ [][Next]_vars

\* First visit, followed over one session more.
InitFocus ==
  /\ useTimerNew
  /\ sessionLimit = MaxSessions + 1
  /\ timerItem = <<>>
  /\ DefaultAdsPage
  /\ audio = useAudioEngineNew
  /\ StorageUnread /\ dailyStatsItem = <<>>

SpecFocus == InitFocus /\ [][Next]_vars

\* ------------------------------------------------------ ad orchestrator
\* A triggerLoad call that was accepted is a record
\*   [slotId, pc, index, attempts, pending, heard]:
\* pc is "await" while the call awaits loadWithTimeout and "done" after its
\* return; index is the place, in getAvailableProviders(slot.providers), of
\* the provider awaited or of the one that filled (0 after exhaustion);
\* attempts lists the providers whose load() the call invoked, in order;
\* pending holds those whose load() promise has not settled yet; heard holds,
\* while the call runs, the subscribers that were notified of its loading
\* state and have not unsubscribed since.

isMobile == innerWidth < MOBILE_BREAKPOINT

\* <<slot>> for a configured slot id, Null (undefined) otherwise.
getSlotConfig(slotId) ==
  IF \E i \in DOMAIN config.slots : config.slots[i].id = slotId
  THEN Some(config.slots[CHOOSE i \in DOMAIN config.slots :
                           config.slots[i].id = slotId])
  ELSE Null

isSlotEnabledForDevice(slotId) ==
  LET slot == getSlotConfig(slotId)
      device == IF isMobile THEN "mobile" ELSE "desktop"
  IN IF slot = Null THEN FALSE ELSE device \in slot[1].enabledDevices

\* Faulty variant: the limit is not checked.
canLoadMobileSlot_NoLimit == TRUE

canLoadMobileSlot ==
  IF ~isMobile THEN TRUE ELSE mobileSlotCount < config.mobileSlotLimit

IsEnabledProvider(p) == p \in enabledProviders

getAvailableProviders(providers) == SelectSeq(providers, IsEnabledProvider)

\* Faulty variant: the state keeps loaded = false.
failedState_NotLoaded ==
  [loaded |-> FALSE, filled |-> FALSE, currentProvider |-> Null,
   error |-> Some("All providers failed to fill")]

failedState ==
  [loaded |-> TRUE, filled |-> FALSE, currentProvider |-> Null,
   error |-> Some("All providers failed to fill")]

successState(provider) ==
  [loaded |-> TRUE, filled |-> TRUE, currentProvider |-> Some(provider),
   error |-> Null]

\* Faulty variant: the AdSense policy is not applied.
PolicySkips_Never(provider) == FALSE

\* The AdSense policy check of the waterfall loop.
PolicySkips(provider) ==
  adsenseActive /\ (provider = "adsterra" \/ provider = "monetag")

\* Faulty variant: the loop does not advance past the provider that failed.
LoopFrom_Same(index) == index

\* The place at which the loop goes on after the provider at `index`.
LoopFrom(index) == index + 1

\* Faulty variant: the loop tries the last candidate first.
NextCandidate_Last(providers, from) ==
  LET ok == {j \in from..Len(providers) :
               providers[j] \in adapters /\ ~PolicySkips(providers[j])}
  IN IF ok = {} THEN 0 ELSE CHOOSE j \in ok : \A i \in ok : j >= i

\* The first place from `from` on whose provider the loop does not skip
\* (adapter present and available, not barred by the AdSense policy); 0 if
\* the loop runs off the end.
NextCandidate(providers, from) ==
  LET ok == {j \in from..Len(providers) :
               providers[j] \in adapters /\ ~PolicySkips(providers[j])}
  IN IF ok = {} THEN 0 ELSE CHOOSE j \in ok : \A i \in ok : j <= i

\* The waterfall loop of `call` run from place `from` to its next await or
\* to its end.
Continue(call, from) ==
  LET providers == getAvailableProviders(getSlotConfig(call.slotId)[1].providers)
      j == NextCandidate(providers, from)
  IN IF j # 0
     THEN [call EXCEPT !.pc = "await",
                       !.index = j,
                       !.attempts = Append(@, providers[j]),
                       !.pending = @ \cup {providers[j]}]
     ELSE [call EXCEPT !.pc = "done", !.index = 0, !.heard = {}]

\* The provider a call awaits.
Awaited(call) ==
  getAvailableProviders(getSlotConfig(call.slotId)[1].providers)[call.index]

\* Faulty variant: only one of the callbacks subscribed is called.
notifyStateChange_One(slotId, state) ==
  IF loadCallbacks = {} THEN <<>>
  ELSE <<[slotId |-> slotId, state |-> state,
          to |-> {CHOOSE callback \in loadCallbacks : TRUE}]>>

\* notifyStateChange(slotId, state): one round of calls, one to each callback
\* subscribed; nothing happens when there is none.
notifyStateChange(slotId, state) ==
  IF loadCallbacks = {} THEN <<>>
  ELSE <<[slotId |-> slotId, state |-> state, to |-> loadCallbacks]>>

\* triggerLoad passes its preconditions.
Accepted(slotId) ==
  /\ slotId \notin loadedSlots
  /\ isSlotEnabledForDevice(slotId)
  /\ canLoadMobileSlot
  /\ getSlotConfig(slotId) # Null

\* triggerLoad(slotId, container) up to its first await or, with no
\* provider to try, to its end.
triggerLoad(slotId) ==
  IF ~Accepted(slotId)
  THEN /\ notified' = <<>>
       /\ UNCHANGED <<loadedSlots, mobileSlotCount, slotStates, calls>>
  ELSE LET call == Continue([slotId |-> slotId, pc |-> "await", index |-> 0,
                             attempts |-> <<>>, pending |-> {},
                             heard |-> loadCallbacks], 1)
       IN /\ Len(calls) < MaxCalls
          /\ loadedSlots' = loadedSlots \cup {slotId}
          /\ mobileSlotCount' = IF isMobile THEN mobileSlotCount + 1
                                ELSE mobileSlotCount
          /\ slotStates' = [slotStates EXCEPT ![slotId] =
                              IF call.pc = "done" THEN failedState
                              ELSE loadingState]
          /\ calls' = Append(calls, call)
          /\ notified' = notifyStateChange(slotId, loadingState)
                           \o (IF call.pc = "done"
                               THEN notifyStateChange(slotId, failedState)
                               ELSE <<>>)

\* A caller invokes triggerLoad directly.
CallTriggerLoad(slotId) ==
  /\ triggerLoad(slotId)
  /\ lateSettled' = [lateSettled EXCEPT !.last = Null]
  /\ UNCHANGED <<timerVars, audio, retrieved, dailyStatsItem, innerWidth, enabledProviders, adapters, observers,
                 orphans, loadCallbacks, adsenseActive>>

\* Faulty variant: no slot is treated as lazy.
IsLazy_Never(slot) == FALSE

IsLazy(slot) == slot[1].lazy

\* The IntersectionObservers that are connected.
RECURSIVE SumOrphans(_)
SumOrphans(S) ==
  IF S = {} THEN 0
  ELSE LET s == CHOOSE x \in S : TRUE IN orphans[s] + SumOrphans(S \ {s})

ConnectedObservers ==
  Cardinality({s \in SlotIds : observers[s] = "connected"}) + SumOrphans(SlotIds)

registerSlot(slotId) ==
  LET slot == getSlotConfig(slotId) IN
  /\ IF slot = Null \/ ~IsLazy(slot)
     THEN /\ triggerLoad(slotId)
          /\ UNCHANGED <<observers, orphans>>
     ELSE /\ ConnectedObservers < MaxObservers
          /\ orphans' = [orphans EXCEPT ![slotId] =
                           IF observers[slotId] = "connected" THEN @ + 1 ELSE @]
          /\ observers' = [observers EXCEPT ![slotId] = "connected"]
          /\ notified' = <<>>
          /\ UNCHANGED <<loadedSlots, mobileSlotCount, slotStates, calls>>
  /\ lateSettled' = [lateSettled EXCEPT !.last = Null]
  /\ UNCHANGED <<timerVars, audio, retrieved, dailyStatsItem, innerWidth, enabledProviders, adapters,
                 loadCallbacks, adsenseActive>>

\* The callback of a connected observer of the slot runs with an entry that
\* is intersecting: the observer the map holds (inMap) or a replaced one.
Intersect(slotId, inMap) ==
  /\ IF inMap THEN observers[slotId] = "connected" ELSE orphans[slotId] > 0
  /\ IF slotId \notin loadedSlots
     THEN /\ triggerLoad(slotId)
          /\ IF inMap
             THEN /\ observers' = [observers EXCEPT ![slotId] = "disconnected"]
                  /\ UNCHANGED orphans
             ELSE /\ orphans' = [orphans EXCEPT ![slotId] = @ - 1]
                  /\ UNCHANGED observers
     ELSE /\ notified' = <<>>
          /\ UNCHANGED <<loadedSlots, mobileSlotCount, slotStates, calls,
                         observers, orphans>>
  /\ lateSettled' = [lateSettled EXCEPT !.last = Null]
  /\ UNCHANGED <<timerVars, audio, retrieved, dailyStatsItem, innerWidth, enabledProviders, adapters,
                 loadCallbacks, adsenseActive>>

unregisterSlot(slotId) ==
  /\ IF slotId \in SlotIds /\ observers[slotId] # "none"
     THEN observers' = [observers EXCEPT ![slotId] = "none"]
     ELSE UNCHANGED observers
  /\ notified' = <<>>
  /\ lateSettled' = [lateSettled EXCEPT !.last = Null]
  /\ UNCHANGED <<timerVars, audio, retrieved, dailyStatsItem, innerWidth, enabledProviders, adapters, slotStates,
                 orphans, loadCallbacks, adsenseActive, loadedSlots,
                 mobileSlotCount, calls>>

\* triggerLoad of call c after its await: `filled` is what loadWithTimeout
\* resolved to, FALSE also when it rejected; `call` is the record with its
\* pending loads brought up to date.
Resume(c, call, filled) ==
  IF filled
  THEN /\ adsenseActive' = (adsenseActive \/ Awaited(call) = "adsense")
       /\ slotStates' = [slotStates EXCEPT ![call.slotId] =
                           successState(Awaited(call))]
       /\ calls' = [calls EXCEPT ![c] = [call EXCEPT !.pc = "done", !.heard = {}]]
       /\ notified' = notifyStateChange(call.slotId, successState(Awaited(call)))
  ELSE LET next == Continue(call, LoopFrom(call.index)) IN
       /\ adsenseActive' = adsenseActive
       /\ slotStates' = IF next.pc = "done"
                        THEN [slotStates EXCEPT ![call.slotId] = failedState]
                        ELSE slotStates
       /\ calls' = [calls EXCEPT ![c] = next]
       /\ notified' = IF next.pc = "done"
                      THEN notifyStateChange(call.slotId, failedState)
                      ELSE <<>>

\* Faulty variant: a load() that resolves true after its timeout still fills
\* the slot.
LoadSettles_LateFills(c, p, result) ==
  /\ c \in 1..Len(calls)
  /\ p \in calls[c].pending
  /\ LET call == [calls[c] EXCEPT !.pending = @ \ {p}] IN
       IF calls[c].pc = "await" /\ Awaited(calls[c]) = p
       THEN /\ Resume(c, call, result = "true")
            /\ lateSettled' = [lateSettled EXCEPT !.last = Null]
       ELSE /\ calls' = [calls EXCEPT ![c] = call]
            /\ notified' = IF result = "true"
                           THEN notifyStateChange(call.slotId, successState(p))
                           ELSE <<>>
            /\ lateSettled' = [lateSettled EXCEPT
                                 !.last = IF lateSettled.watched
                                          THEN Some(result) ELSE Null]
            /\ adsenseActive' = (adsenseActive \/ (result = "true" /\ p = "adsense"))
            /\ slotStates' = IF result = "true"
                             THEN [slotStates EXCEPT ![call.slotId] = successState(p)]
                             ELSE slotStates
  /\ UNCHANGED <<timerVars, audio, retrieved, dailyStatsItem, innerWidth, enabledProviders, adapters, observers,
                 orphans, loadCallbacks, loadedSlots, mobileSlotCount>>

\* The load() promise of provider p, invoked by call c, settles: it resolves
\* true or false, or rejects ("error").  If the call awaits it the call goes
\* on; if the timeout has already won the race nothing is listening.
LoadSettles(c, p, result) ==
  /\ c \in 1..Len(calls)
  /\ p \in calls[c].pending
  /\ LET call == [calls[c] EXCEPT !.pending = @ \ {p}] IN
       IF calls[c].pc = "await" /\ Awaited(calls[c]) = p
       THEN /\ Resume(c, call, result = "true")
            /\ lateSettled' = [lateSettled EXCEPT !.last = Null]
       ELSE /\ calls' = [calls EXCEPT ![c] = call]
            /\ notified' = <<>>
            /\ lateSettled' = [lateSettled EXCEPT
                                 !.last = IF lateSettled.watched
                                          THEN Some(result) ELSE Null]
            /\ UNCHANGED <<adsenseActive, slotStates>>
  /\ UNCHANGED <<timerVars, audio, retrieved, dailyStatsItem, innerWidth, enabledProviders, adapters, observers,
                 orphans, loadCallbacks, loadedSlots, mobileSlotCount>>

\* The load() promises that lost the race against the timer and have not
\* settled.
RECURSIVE SumLate(_)
SumLate(n) ==
  IF n = 0 THEN 0
  ELSE SumLate(n - 1)
       + Cardinality(calls[n].pending
                     \ (IF calls[n].pc = "await" THEN {Awaited(calls[n])} ELSE {}))

LateLoads == SumLate(Len(calls))

\* Faulty variant: loadWithTimeout starts no timer.
Timeout_Never(c) == FALSE /\ UNCHANGED vars

\* The 5 s timer of loadWithTimeout fires before the load() call c awaits
\* has settled: the race rejects, the load() promise stays pending.
Timeout(c) ==
  /\ c \in 1..Len(calls)
  /\ calls[c].pc = "await"
  /\ Resume(c,
            IF LateLoads < MaxLate THEN calls[c]
            ELSE [calls[c] EXCEPT !.pending = @ \ {Awaited(calls[c])}],
            FALSE)
  /\ lateSettled' = [lateSettled EXCEPT !.last = Null]
  /\ UNCHANGED <<timerVars, audio, retrieved, dailyStatsItem, innerWidth, enabledProviders, adapters, observers,
                 orphans, loadCallbacks, loadedSlots, mobileSlotCount>>

\* Observers no longer in the map stay connected.
destroy ==
  /\ observers' = [s \in SlotIds |-> "none"]
  /\ loadCallbacks' = {}
  /\ loadedSlots' = {}
  /\ notified' = <<>>
  /\ lateSettled' = [lateSettled EXCEPT !.last = Null]
  /\ UNCHANGED <<timerVars, audio, retrieved, dailyStatsItem, innerWidth, enabledProviders, adapters, slotStates,
                 orphans, adsenseActive, mobileSlotCount, calls>>

\* The orchestrator as constructed, on a mobile or a desktop viewport.  No
\* subscriber is registered: loadCallbacks stays empty.  The pages it is run
\* on are pairs <<providers enabled in the configuration, providers whose
\* adapter is registered and available>>: everything on; one provider
\* disabled and another without adapter; AdSense disabled; no adapter at
\* all; no provider enabled.
InitAds ==
  /\ InitPage
  /\ timerItem = <<>>
  /\ AdOrchestratorNew
  /\ audio = useAudioEngineNew
  /\ StorageUnread /\ dailyStatsItem = <<>>
  /\ innerWidth \in {MOBILE_BREAKPOINT - 1, MOBILE_BREAKPOINT}
  /\ \E setup \in { <<Providers, Providers>>,
                     <<{"adsterra", "adsense"}, {"adsense", "monetag"}>>,
                     <<{"adsterra", "monetag"}, Providers>>,
                     <<Providers, {}>>,
                     <<{}, Providers>> } :
       enabledProviders = setup[1] /\ adapters = setup[2]

NextAds ==
  \/ \E slotId \in SlotArgs : CallTriggerLoad(slotId)
  \/ \E slotId \in SlotArgs : registerSlot(slotId)
  \/ \E slotId \in SlotIds, inMap \in BOOLEAN : Intersect(slotId, inMap)
  \/ \E slotId \in SlotArgs : unregisterSlot(slotId)
  \/ \E c \in 1..MaxCalls, p \in Providers, result \in {"true", "false", "error"} :
       LoadSettles(c, p, result)
  \/ \E c \in 1..MaxCalls : Timeout(c)
  \/ destroy

SpecAds == InitAds /\ [][NextAds]_vars

\* Timers fire: a call that awaits loadWithTimeout is resumed by the 5 s
\* timer at the latest.
SpecAdsFair == SpecAds /\ \A c \in 1..MaxCalls : WF_vars(Timeout(c))

\* onSlotStateChange(callback).
onSlotStateChange(callback) ==
  /\ loadCallbacks' = loadCallbacks \cup {callback}
  /\ notified' = <<>>
  /\ lateSettled' = [lateSettled EXCEPT !.last = Null]
  /\ UNCHANGED <<timerVars, audio, retrieved, dailyStatsItem, innerWidth, enabledProviders, adapters, slotStates,
                 observers, orphans, adsenseActive, loadedSlots,
                 mobileSlotCount, calls>>

\* The function onSlotStateChange(callback) returned is called.
unsubscribe(callback) ==
  /\ loadCallbacks' = loadCallbacks \ {callback}
  /\ calls' = [c \in 1..Len(calls) |->
                 [calls[c] EXCEPT !.heard = @ \ {callback}]]
  /\ notified' = <<>>
  /\ lateSettled' = [lateSettled EXCEPT !.last = Null]
  /\ UNCHANGED <<timerVars, audio, retrieved, dailyStatsItem, innerWidth, enabledProviders, adapters, slotStates,
                 observers, orphans, adsenseActive, loadedSlots,
                 mobileSlotCount>>

\* The orchestrator with subscribers, every provider enabled and available.
InitAdsSub ==
  /\ InitPage
  /\ timerItem = <<>>
  /\ AdOrchestratorNew
  /\ audio = useAudioEngineNew
  /\ StorageUnread /\ dailyStatsItem = <<>>
  /\ innerWidth \in {MOBILE_BREAKPOINT - 1, MOBILE_BREAKPOINT}
  /\ enabledProviders = Providers
  /\ adapters \in {Providers, {}}

NextAdsSub ==
  \/ NextAds
  \/ \E callback \in Callbacks : onSlotStateChange(callback)
  \/ \E callback \in Callbacks : unsubscribe(callback)

SpecAdsSub == InitAdsSub /\ [][NextAdsSub]_vars

\* The orchestrator after every callback of Callbacks subscribed, before
\* any slot is registered; every provider is enabled and available, and the
\* settlements that come after their timeout are recorded.
InitAdsLate ==
  /\ InitPage
  /\ timerItem = <<>>
  /\ slotStates = [s \in SlotIds |-> loadingState]
  /\ observers = [s \in SlotIds |-> "none"]
  /\ orphans = [s \in SlotIds |-> 0]
  /\ loadCallbacks = Callbacks
  /\ adsenseActive = FALSE
  /\ loadedSlots = {}
  /\ mobileSlotCount = 0
  /\ calls = <<>>
  /\ notified = <<>>
  /\ lateSettled = [watched |-> TRUE, last |-> Null]
  /\ audio = useAudioEngineNew
  /\ StorageUnread /\ dailyStatsItem = <<>>
  /\ innerWidth \in {MOBILE_BREAKPOINT - 1, MOBILE_BREAKPOINT}
  /\ enabledProviders = Providers
  /\ adapters = Providers

SpecAdsLate == InitAdsLate /\ [][NextAds]_vars

\* ------------------------------------------------- audio engine: steps
\* Handlers are operators from the hook's state to its next state; a play()
\* call that awaits is a record [pc, currentTrack, is8DEnabled, N] of what
\* its closure holds, pc being "resume" while it awaits
\* audioContext.resume() and "play" while it awaits audioElement.play().

\* const playlist = playlists[currentMood]?.tracks || [].
playlist(a) == a.playlists[a.currentMood]

\* const currentTrack = playlist[trackIndex] || null.
currentTrack(a) ==
  IF a.trackIndex \in 0..(Len(playlist(a)) - 1)
  THEN Some(playlist(a)[a.trackIndex + 1])
  ELSE Null

\* new AudioContext() comes up "running" or "suspended", or throws ("fail").
initAudioContext(a, outcome) ==
  IF a.audioContext # Null \/ outcome = "fail" THEN a
  ELSE [a EXCEPT !.audioContext = Some(outcome),
                 !.gain = Some(a.volume),
                 !.pan = Some(0)]

\* Faulty variant: the old links are kept and only the gain is rewired.
connectNodes_Partial(a, is8DEnabled) ==
  IF a.audioContext = Null \/ ~a.source \/ a.gain = Null THEN a
  ELSE [a EXCEPT !.links = @ \cup {<<"source", "gain">>}]

connectNodes(a, is8DEnabled) ==
  IF a.audioContext = Null \/ ~a.source \/ a.gain = Null THEN a
  ELSE LET disconnected == [a EXCEPT !.links = {}]
       IN IF is8DEnabled /\ a.pan # Null
          THEN [disconnected EXCEPT !.links =
                  {<<"source", "gain">>, <<"gain", "panner">>,
                   <<"panner", "compressor">>, <<"compressor", "destination">>}]
          ELSE [disconnected EXCEPT !.links =
                  {<<"source", "gain">>, <<"gain", "destination">>}]

startPanAnimation(a, is8DEnabled) ==
  IF a.pan = Null \/ ~is8DEnabled THEN a
  ELSE [a EXCEPT !.panLoops = @ + 1, !.panAnimationRef = Some("frame")]

\* cancelAnimationFrame ends the loop whose frame the ref names.
stopPanAnimation(a) ==
  LET cancelled == IF a.panAnimationRef # Null
                   THEN [a EXCEPT !.panLoops = @ - 1, !.panAnimationRef = Null]
                   ELSE a
  IN IF cancelled.pan # Null THEN [cancelled EXCEPT !.pan = Some(0)]
     ELSE cancelled

startProgressTracking(a) == [a EXCEPT !.tracking = TRUE]

stopProgressTracking(a) == [a EXCEPT !.tracking = FALSE]

\* The pending promises of audioElement.play() are rejected (AbortError) by
\* pause() and by load(): the play() calls awaiting them end in their catch.
AbortPlays(a) ==
  LET Waiting(call) == call.pc # "play"
  IN [a EXCEPT !.plays = SelectSeq(@, Waiting)]

\* audioElement.pause().
elementPause(a) ==
  IF a.element = Null THEN a
  ELSE AbortPlays([a EXCEPT !.element[1].paused = TRUE])

\* loadTrack as closed over playlist.length = N.
loadTrack(a, track, N) ==
  LET created == IF a.element = Null
                 THEN [a EXCEPT !.element =
                         Some([src |-> "", paused |-> TRUE, N |-> N])]
                 ELSE a
  IN AbortPlays([created EXCEPT !.element[1].src = track,
                                !.element[1].paused = TRUE,
                                !.progress = 0])

connectAudioElement(a, is8DEnabled) ==
  IF a.audioContext = Null \/ a.element = Null \/ a.source THEN a
  ELSE connectNodes([a EXCEPT !.source = TRUE], is8DEnabled)

\* play() from after the resume of the context to its await of
\* audioElement.play().
PlayFromLoad(a, call) ==
  LET loaded == IF a.element = Null \/ a.element[1].src # call.currentTrack
                THEN loadTrack(a, call.currentTrack, call.N)
                ELSE a
      connected == IF ~loaded.source
                   THEN connectAudioElement(loaded, call.is8DEnabled)
                   ELSE loaded
  IN IF connected.element = Null THEN connected
     ELSE [connected EXCEPT !.element[1].paused = FALSE,
                            !.plays = Append(@, [call EXCEPT !.pc = "play"])]

\* play() up to its first await.
play(a, outcome) ==
  IF currentTrack(a) = Null THEN a
  ELSE LET b == initAudioContext(a, outcome)
           call == [pc |-> "resume",
                    currentTrack |-> currentTrack(a)[1],
                    is8DEnabled |-> a.is8DEnabled,
                    N |-> Len(playlist(a))]
       IN IF b.audioContext = Some("suspended")
          THEN [b EXCEPT !.plays = Append(@, call)]
          ELSE PlayFromLoad(b, call)

RemoveAt(seq, i) == SubSeq(seq, 1, i - 1) \o SubSeq(seq, i + 1, Len(seq))

\* play() after audioElement.play() resolved.
playResolved(a, i) ==
  LET call == a.plays[i]
      b == startProgressTracking([a EXCEPT !.plays = RemoveAt(@, i),
                                           !.isPlaying = TRUE])
  IN IF call.is8DEnabled THEN startPanAnimation(b, call.is8DEnabled) ELSE b

pauseAudio(a) ==
  stopPanAnimation(stopProgressTracking(
    [elementPause(a) EXCEPT !.isPlaying = FALSE]))

stopAudio(a) ==
  stopPanAnimation(stopProgressTracking(
    [elementPause(a) EXCEPT !.isPlaying = FALSE, !.progress = 0]))

\* Faulty variant: no wraparound.
nextIndex_NoWrap(trackIndex, N) == trackIndex + 1

nextIndex(trackIndex, N) == (trackIndex + 1) % N

prevIndex(trackIndex, N) == IF trackIndex = 0 THEN N - 1 ELSE trackIndex - 1

next(a) == [a EXCEPT !.trackIndex = nextIndex(@, Len(playlist(a)))]

previous(a) == [a EXCEPT !.trackIndex = prevIndex(@, Len(playlist(a)))]

Min(x, y) == IF x <= y THEN x ELSE y

\* Faulty variant: only the upper limit is applied.
clampVolume_NoFloor(level) == Min(100, level)

clampVolume(level) == Max(0, Min(100, level))

setVolume(a, level) ==
  LET clampedVolume == clampVolume(level)
  IN [a EXCEPT !.volume = clampedVolume,
               !.gain = IF @ # Null THEN Some(clampedVolume) ELSE @]

set8DEnabled(a, enabled) == [a EXCEPT !.is8DEnabled = enabled]

\* Faulty variant: the track index is kept.
setMood_KeepIndex(a, mood) ==
  IF mood = a.currentMood THEN a
  ELSE [stopAudio(a) EXCEPT !.currentMood = mood]

setMood(a, mood) ==
  IF mood = a.currentMood THEN a
  ELSE [stopAudio(a) EXCEPT !.currentMood = mood, !.trackIndex = 0]

\* The 'ended' and the 'error' listener of the audio element.
onEndedOrError(a) ==
  [a EXCEPT !.trackIndex = nextIndex(@, a.element[1].N)]

\* Effect: reconnect nodes when 8D mode changes.
Effect8D(a) ==
  IF ~a.source THEN a
  ELSE LET b == connectNodes(a, a.is8DEnabled)
       IN IF a.is8DEnabled /\ a.isPlaying
          THEN startPanAnimation(b, a.is8DEnabled)
          ELSE stopPanAnimation(b)

\* Effect: load new track when trackIndex changes.
EffectTrack(a) ==
  IF currentTrack(a) = Null \/ a.element = Null THEN a
  ELSE LET b == loadTrack(a, currentTrack(a)[1], Len(playlist(a)))
       IN IF a.isPlaying THEN [b EXCEPT !.element[1].paused = FALSE] ELSE b

\* The render after a step from state old to state a, with the effects
\* whose dependencies changed, in the order of their definition.
Render(old, a) ==
  LET e1 == IF old.is8DEnabled # a.is8DEnabled \/ old.isPlaying # a.isPlaying
            THEN Effect8D(a)
            ELSE a
  IN IF \/ old.trackIndex # a.trackIndex
        \/ currentTrack(old) # currentTrack(a)
        \/ Len(playlist(old)) # Len(playlist(a))
        \/ old.isPlaying # a.isPlaying
     THEN EffectTrack(e1)
     ELSE e1

\* A step of the hook to state a, within the bounds.
AudioStep(a) ==
  /\ a.panLoops <= MaxLoops
  /\ Len(a.plays) <= MaxPlays
  /\ audio' = a
  /\ UNCHANGED <<timerVars, adVars, retrieved, dailyStatsItem>>

DoPlay ==
  \E outcome \in {"running", "suspended", "fail"} :
    AudioStep(Render(audio, play(audio, outcome)))

\* audioContext.resume() resolves for the play() call at place i.
ResumeResolves(i) ==
  /\ i \in 1..Len(audio.plays)
  /\ audio.plays[i].pc = "resume"
  /\ AudioStep(Render(audio,
       PlayFromLoad([audio EXCEPT !.plays = RemoveAt(@, i),
                                  !.audioContext = Some("running")],
                    audio.plays[i])))

PlayResolves(i) ==
  /\ i \in 1..Len(audio.plays)
  /\ audio.plays[i].pc = "play"
  /\ AudioStep(Render(audio, playResolved(audio, i)))

\* audioElement.play() rejects (playback not allowed): the element stays
\* paused.
PlayRejects(i) ==
  /\ i \in 1..Len(audio.plays)
  /\ audio.plays[i].pc = "play"
  /\ AudioStep([audio EXCEPT !.plays = RemoveAt(@, i),
                             !.element[1].paused = TRUE])

DoPause == AudioStep(Render(audio, pauseAudio(audio)))

DoStop == AudioStep(Render(audio, stopAudio(audio)))

DoNext == AudioStep(Render(audio, next(audio)))

DoPrevious == AudioStep(Render(audio, previous(audio)))

DoSetVolume(level) == AudioStep(Render(audio, setVolume(audio, level)))

DoSet8DEnabled(enabled) ==
  AudioStep(Render(audio, set8DEnabled(audio, enabled)))

DoSetMood(mood) == AudioStep(Render(audio, setMood(audio, mood)))

\* The track played to its end.
TrackEnded ==
  /\ audio.element # Null
  /\ ~audio.element[1].paused
  /\ AudioStep(Render(audio, onEndedOrError(audio)))

\* The track failed to load.
TrackError ==
  /\ audio.element # Null
  /\ AudioStep(Render(audio, onEndedOrError(audio)))

\* An animation frame: every animate callback scheduled runs and schedules
\* itself again.
PanFrame(panValue) ==
  /\ audio.panLoops > 0
  /\ AudioStep([audio EXCEPT !.pan = Some(panValue),
                             !.panAnimationRef = Some("frame")])

\* The progress interval fires.
ProgressTick(progressPercent) ==
  /\ audio.tracking
  /\ audio.element # Null
  /\ AudioStep([audio EXCEPT !.progress = progressPercent])

InitAudio ==
  /\ InitPage
  /\ timerItem = <<>>
  /\ DefaultAdsPage
  /\ audio = useAudioEngineNew
  /\ StorageUnread /\ dailyStatsItem = <<>>

NextAudio ==
  \/ DoPlay
  \/ \E i \in 1..MaxPlays : ResumeResolves(i)
  \/ \E i \in 1..MaxPlays : PlayResolves(i)
  \/ \E i \in 1..MaxPlays : PlayRejects(i)
  \/ DoPause
  \/ DoStop
  \/ DoNext
  \/ DoPrevious
  \/ \E level \in Levels : DoSetVolume(level)
  \/ \E enabled \in BOOLEAN : DoSet8DEnabled(enabled)
  \/ \E mood \in Moods : DoSetMood(mood)
  \/ TrackEnded
  \/ TrackError
  \/ \E panValue \in {-1, 1} : PanFrame(panValue)
  \/ \E progressPercent \in {50} : ProgressTick(progressPercent)

SpecAudio == InitAudio /\ [][NextAudio]_vars

\* The hook given playlists of three tracks or more.
InitPlayback ==
  /\ InitPage
  /\ timerItem = <<>>
  /\ DefaultAdsPage
  /\ audio = useAudioEngine(fullPlaylists)
  /\ StorageUnread /\ dailyStatsItem = <<>>

\* The playback operations and the element's events.
NextPlayback ==
  \/ DoPlay
  \/ \E i \in 1..MaxPlays : ResumeResolves(i)
  \/ \E i \in 1..MaxPlays : PlayResolves(i)
  \/ \E i \in 1..MaxPlays : PlayRejects(i)
  \/ DoPause
  \/ DoStop
  \/ DoNext
  \/ DoPrevious
  \/ \E mood \in Moods : DoSetMood(mood)
  \/ TrackEnded
  \/ TrackError

SpecPlayback == InitPlayback /\ [][NextPlayback]_vars

\* ------------------------------------- storage functions, called directly
\* The TimerSnapshot values callers save.
Snapshots ==
  [state : validStates,
   mode : validModes,
   startTimestamp : {Null, Some(POMODORO_BREAK_MS)},
   pausedElapsed : {0, POMODORO_BREAK_MS},
   pomodoroPhase : validPhases,
   pomodoroRemainingMs : {POMODORO_WORK_MS}]

\* Stored text that parses to null, a number, a string or a boolean.
Primitives ==
  {[json |-> TRUE, t |-> "null"],
   [json |-> TRUE, t |-> "number", v |-> 0],
   [json |-> TRUE, t |-> "number", v |-> 42],
   [json |-> TRUE, t |-> "string", s |-> "idle"],
   [json |-> TRUE, t |-> "boolean", b |-> TRUE]}

\* Objects with fields of a wrong value, a wrong type, or missing.
CorruptObjects ==
  [json : {TRUE},
   state : {JStr("idle"), JStr("invalid_state"), JUndef},
   mode : {JStr("stopwatch"), JStr("bogus"), JNum(1)},
   startTimestamp : {JNull, JStr("0")},
   pausedElapsed : {JNum(0), JUndef},
   pomodoroPhase : {JStr("work"), JStr("rest")},
   pomodoroRemainingMs : {JNum(0), JNull}]

\* What localStorage['haisa_timer_snapshot'] may hold.
SnapshotTexts ==
  {<<>>, <<Garbage>>}
    \cup {<<o>> : o \in Primitives \cup CorruptObjects}
    \cup {<<[json |-> TRUE, state |-> JUndef, mode |-> JUndef,
             startTimestamp |-> JUndef, pausedElapsed |-> JUndef,
             pomodoroPhase |-> JUndef, pomodoroRemainingMs |-> JUndef]>>}

SessionObjects ==
  [json : {TRUE},
   id : {JStr("session_0"), JNum(7)},
   startTime : {JNum(0), JStr("0")},
   endTime : {JNum(POMODORO_BREAK_MS), JUndef},
   duration : {JNum(POMODORO_BREAK_MS), JNull},
   mode : {JStr("pomodoro"), JStr("bogus")},
   completed : {JBool(TRUE), JStr("true")}]

\* The SessionData values saveSession stores as the last session.
Sessions ==
  [id : {"session_0"},
   startTime : {0},
   endTime : {POMODORO_BREAK_MS},
   duration : {POMODORO_BREAK_MS},
   mode : validModes,
   completed : BOOLEAN]

\* What localStorage['haisa_last_session'] may hold.
SessionTexts ==
  {<<>>, <<Garbage>>}
    \cup {<<o>> : o \in Primitives \cup SessionObjects}
    \cup {<<JSONstringifySession(session)>> : session \in Sessions}

\* The variables of the timer hook other than the stored snapshot.
hookVars == <<wall, origin, mounted, internalState, elapsedMs, remainingMs,
              sessionStartTimeRef, sessions, reloads, ranMs, ranBeforeRefresh,
              sessionLimit>>

CallSaveTimerSnapshot(snapshot) ==
  /\ saveTimerSnapshot(snapshot)
  /\ UNCHANGED <<hookVars, adVars, audio, retrieved, dailyStatsItem>>

\* getTimerSnapshot(): the stored text is returned as a snapshot if it is
\* one, and removed if not.
CallGetTimerSnapshot ==
  /\ retrieved' = [call |-> "getTimerSnapshot", item |-> timerItem,
                   result |-> getTimerSnapshot(timerItem)]
  /\ IF getTimerSnapshot(timerItem) # Null
     THEN UNCHANGED timerItem
     ELSE clearTimerSnapshot
  /\ UNCHANGED <<hookVars, adVars, audio, dailyStatsItem>>

CallClearTimerSnapshot ==
  /\ clearTimerSnapshot
  /\ UNCHANGED <<hookVars, adVars, audio, retrieved, dailyStatsItem>>

\* getLastSession() with item stored under 'haisa_last_session'.
CallGetLastSession(item) ==
  /\ retrieved' = [call |-> "getLastSession", item |-> item,
                   result |-> getLastSession(item)]
  /\ UNCHANGED <<timerVars, adVars, audio, dailyStatsItem>>

\* The storage functions called in any order on a browser that never held a
\* snapshot, or holds one that does not parse.
InitStorage ==
  /\ InitPage
  /\ timerItem \in {<<>>, <<Garbage>>}
  /\ DefaultAdsPage
  /\ audio = useAudioEngineNew
  /\ StorageUnread /\ dailyStatsItem = <<>>

NextStorage ==
  \/ \E snapshot \in Snapshots : CallSaveTimerSnapshot(snapshot)
  \/ CallGetTimerSnapshot
  \/ CallClearTimerSnapshot

SpecStorage == InitStorage /\ [][NextStorage]_vars

\* The page opened on a browser whose localStorage holds anything: the hook
\* mounts, and the stored entries are read.
InitRecovery ==
  /\ InitPage
  /\ timerItem \in SnapshotTexts
  /\ DefaultAdsPage
  /\ audio = useAudioEngineNew
  /\ StorageUnread /\ dailyStatsItem = <<>>

NextRecovery ==
  \/ Mount
  \/ CallGetTimerSnapshot
  \/ \E item \in SessionTexts : CallGetLastSession(item)

SpecRecovery == InitRecovery /\ [][NextRecovery]_vars

\* ---------------------------------------------------- daily statistics
\* The dates sessions are recorded for.
Dates == {"2024-01-01", "2024-01-02"}

\* A JSON array.
JArr(items) == [t |-> "array", items |-> items]

\* The stored object keyed by date: entries maps each key to its value.
StatsObject(entries) == [json |-> TRUE, entries |-> entries]

isValidDailyStats(data) ==
  /\ IsObject(data)
  /\ data.date.t = "string"
  /\ data.totalFocusMs.t = "number"
  /\ data.sessionCount.t = "number"
  /\ data.sessions.t = "array"

\* getAllDailyStats(): the entries of the stored object that are DailyStats,
\* by date; no entry when nothing is stored, the text does not parse or is
\* not an object.
getAllDailyStats(item) ==
  IF item # <<>> /\ item[1].json /\ IsObject(item[1])
  THEN LET data == item[1].entries
       IN [date \in {d \in DOMAIN data : isValidDailyStats(data[d])} |-> data[date]]
  ELSE <<>>

\* The DailyStats a date without entry gets.
emptyStats(date) ==
  [date |-> JStr(date), totalFocusMs |-> JNum(0), sessionCount |-> JNum(0),
   sessions |-> JArr(<<>>)]

\* getStatsForDate(date) reading item.
getStatsForDate(item, date) ==
  IF date \in DOMAIN getAllDailyStats(item)
  THEN getAllDailyStats(item)[date]
  ELSE emptyStats(date)

\* Faulty variant: the session is appended but not counted.
addSession_NoCount(stats, session) ==
  [stats EXCEPT !.totalFocusMs = JNum(@.v + session.duration),
                !.sessions = JArr(Append(@.items, JSONstringifySession(session)))]

\* The update of a date's stats by one session.
addSession(stats, session) ==
  [stats EXCEPT !.totalFocusMs = JNum(@.v + session.duration),
                !.sessionCount = JNum(@.v + 1),
                !.sessions = JArr(Append(@.items, JSONstringifySession(session)))]

\* saveSessionForDate(session, date): a date holds at most MaxPerDate
\* sessions in a run.
saveSessionForDate(session, date) ==
  /\ Len(getStatsForDate(dailyStatsItem, date).sessions.items) < MaxPerDate
  /\ LET allStats == getAllDailyStats(dailyStatsItem)
         dateStats == IF date \in DOMAIN allStats THEN allStats[date]
                      ELSE emptyStats(date)
     IN dailyStatsItem' =
          <<StatsObject([d \in DOMAIN allStats \cup {date} |->
                           IF d = date THEN addSession(dateStats, session)
                           ELSE allStats[d]])>>
  /\ UNCHANGED <<timerVars, adVars, audio, retrieved>>

\* saveSession(session) of the storage module on the day `today`.
CallSaveSession(session, today) == saveSessionForDate(session, today)

\* The SessionData values recorded.
RecordedSessions ==
  [id : {"session_0"},
   startTime : {0},
   endTime : {POMODORO_BREAK_MS},
   duration : {0, POMODORO_BREAK_MS, POMODORO_WORK_MS},
   mode : {"pomodoro"},
   completed : {TRUE}]

\* What a date holds when the page is opened: a value that is not
\* DailyStats, or the stats of one recorded session.
StoredStats(date) ==
  {JNull,
   [date |-> JStr("2024-01-01"), totalFocusMs |-> JStr("300000"),
    sessionCount |-> JNum(1), sessions |-> JArr(<<>>)],
   [date |-> JStr("2024-01-02"), totalFocusMs |-> JNum(300000),
    sessionCount |-> JNum(1), sessions |-> JUndef]}
    \cup {addSession(emptyStats(date), session) : session \in RecordedSessions}

\* What localStorage['haisa_daily_stats'] holds when the page is opened.
StatsTexts ==
  {<<>>, <<Garbage>>}
    \cup {<<o>> : o \in Primitives}
    \cup UNION {{<<StatsObject(entries)>> :
                   entries \in {f \in [ds -> UNION {StoredStats(d) : d \in ds}] :
                                  \A d \in ds : f[d] \in StoredStats(d)}} :
                ds \in SUBSET Dates}

InitStats ==
  /\ InitPage
  /\ timerItem = <<>>
  /\ DefaultAdsPage
  /\ audio = useAudioEngineNew
  /\ StorageUnread
  /\ dailyStatsItem \in StatsTexts

NextStats ==
  \/ \E session \in RecordedSessions, date \in Dates :
       saveSessionForDate(session, date)
  \/ \E session \in RecordedSessions, today \in Dates :
       CallSaveSession(session, today)

SpecStats == InitStats /\ [][NextStats]_vars

\* ------------------------------------------------------------------ claims

\* C1: in every reachable state startTimestamp is non-null if and only if
\* state is 'running'.
C1_StartTimestampIffRunning ==
  (internalState.startTimestamp # Null) <=> (internalState.state = "running")

\* C2: for a timer started from idle, the elapsed time reported at a pause is
\* the time spent running since that start (D1 at the first pause, D1 + D2 at
\* the second, the paused interval never counted); it stays so while paused,
\* and resume() leaves the reported elapsed time as it was.
C2_ElapsedAtPause ==
  [][/\ (ranMs' # Null /\ internalState'.state = "paused")
          => elapsedMs' = ranMs'[1]
     /\ (internalState.state = "paused" /\ internalState'.state = "running")
          => elapsedMs' = elapsedMs]_vars

\* Paused, after a run from idle of ten minutes or more, while more time than
\* that has passed since the start: some of it was spent paused.
C2_Witness ==
  /\ internalState.state = "paused"
  /\ ranMs # Null /\ sessionStartTimeRef # Null
  /\ ranMs[1] >= 2 * POMODORO_BREAK_MS
  /\ wall - sessionStartTimeRef[1] > ranMs[1]
  /\ elapsedMs = ranMs[1]

\* C3: a tick in pomodoro mode while running with computed remaining <= 0
\* moves to 'finished', flips the phase, sets pomodoroRemainingMs to the new
\* phase's full duration and startTimestamp to null; in stopwatch mode no tick
\* changes the state.
C3_PhaseComplete ==
  [][tick =>
       /\ (/\ internalState.mode = "pomodoro"
           /\ internalState.state = "running"
           /\ calculateRemaining(internalState) <= 0)
            => /\ internalState'.state = "finished"
               /\ internalState'.pomodoroPhase # internalState.pomodoroPhase
               /\ internalState'.pomodoroPhase \in validPhases
               /\ internalState'.pomodoroRemainingMs
                    = (IF internalState'.pomodoroPhase = "break"
                       THEN 5 * 60 * 1000 ELSE 25 * 60 * 1000)
               /\ internalState'.startTimestamp = Null
       /\ internalState.mode = "stopwatch"
            => internalState'.state = internalState.state]_vars

\* A work phase started on this page ran its 25 minutes and a tick completed it.
C3_Witness ==
  /\ internalState.state = "finished"
  /\ internalState.pomodoroPhase = "break"
  /\ ranMs # Null /\ ranMs[1] >= POMODORO_WORK_MS

\* C4: every autonomous phase completion records exactly one SessionData with
\* completed = true, mode = pomodoro and the full duration of the phase that
\* just finished, also when the running timer was restored after a reload.
C4_CompletionRecordsSession ==
  [][PhaseCompleteStep =>
       sessions' = Append(sessions,
                          [duration |-> IF internalState.pomodoroPhase = "work"
                                        THEN 25 * 60 * 1000 ELSE 5 * 60 * 1000,
                           mode |-> "pomodoro",
                           completed |-> TRUE])]_vars

\* C5: right after the phase-complete transition the exposed remainingMs is
\* the full duration of the new phase.
C5_RemainingAfterCompletion ==
  [][PhaseCompleteStep =>
       remainingMs' = (IF internalState'.pomodoroPhase = "break"
                       THEN 5 * 60 * 1000 ELSE 25 * 60 * 1000)]_vars

\* C6: stop() from a non-idle state moves to idle, removes the persisted
\* snapshot and, if the elapsed time is > 0, records exactly one SessionData
\* with completed = false and that elapsed time as duration; stop() from idle
\* changes nothing and records nothing.
C6_Stop ==
  [][stop =>
       IF internalState.state # "idle"
       THEN /\ internalState'.state = "idle"
            /\ timerItem' = <<>>
            /\ LET e == calculateElapsed(internalState) IN
                 IF e > 0
                 THEN /\ Len(sessions') = Len(sessions) + 1
                      /\ SubSeq(sessions', 1, Len(sessions)) = sessions
                      /\ sessions'[Len(sessions')].completed = FALSE
                      /\ sessions'[Len(sessions')].duration = e
                 ELSE sessions' = sessions
       ELSE UNCHANGED <<internalState, elapsedMs, remainingMs,
                        sessionStartTimeRef, timerItem, sessions>>]_vars

C8_Unchanged ==
  UNCHANGED <<internalState, elapsedMs, remainingMs, sessionStartTimeRef,
              timerItem, sessions>>

C8_StartPauseResume ==
  [][/\ start =>
          IF internalState.state \in {"idle", "finished"}
          THEN /\ internalState'.state = "running"
               /\ internalState'.startTimestamp = <<wall - origin>>
          ELSE C8_Unchanged
     /\ pause =>
          IF internalState.state = "running"
          THEN internalState'.state = "paused"
          ELSE C8_Unchanged
     /\ resume =>
          IF internalState.state = "paused"
          THEN internalState'.state = "running"
          ELSE C8_Unchanged]_vars

\* start() has just been called, on a page loaded after time 0 and some time
\* after its load: the timer runs from the page's current performance time.
C8_Witness ==
  /\ internalState.state = "running"
  /\ sessionStartTimeRef = <<wall>>
  /\ origin > 0
  /\ wall - origin > 0
  /\ internalState.startTimestamp = <<wall - origin>>
  /\ getTimerSnapshot(timerItem) = <<internalState>>

\* C9: setMode(m) changes the mode only when idle, and then sets phase = work,
\* elapsed = 0 and, for pomodoro, remaining = 25 min; in running, paused or
\* finished it leaves mode, phase, elapsed and remaining unchanged.
C9_SetMode ==
  [][\A m \in validModes :
       setMode(m) =>
         IF internalState.state = "idle"
         THEN /\ internalState'.mode = m
              /\ internalState'.pomodoroPhase = "work"
              /\ internalState'.pausedElapsed = 0
              /\ elapsedMs' = 0
              /\ (m = "pomodoro") =>
                   /\ remainingMs' = 25 * 60 * 1000
                   /\ internalState'.pomodoroRemainingMs = 25 * 60 * 1000
         ELSE /\ internalState'.mode = internalState.mode
              /\ internalState'.pomodoroPhase = internalState.pomodoroPhase
              /\ internalState'.pausedElapsed = internalState.pausedElapsed
              /\ internalState'.pomodoroRemainingMs
                   = internalState.pomodoroRemainingMs
              /\ elapsedMs' = elapsedMs
              /\ remainingMs' = remainingMs]_vars

\* setMode('pomodoro') was called on an idle timer after a session was
\* recorded: the idle pomodoro state is the stored snapshot.
C9_Witness ==
  /\ sessions # <<>>
  /\ getTimerSnapshot(timerItem) = <<internalState>>
  /\ internalState.state = "idle"
  /\ internalState.mode = "pomodoro"
  /\ internalState.pomodoroPhase = "work"
  /\ remainingMs = POMODORO_WORK_MS
  /\ timerItem # <<>>

C11_RestoreKeepsElapsed ==
  [][(Mount /\ ranBeforeRefresh # Null)
       => elapsedMs' >= ranBeforeRefresh[1]]_vars

\* C12: in pomodoro mode, pausing a phase that started with remaining R after
\* it ran for E < R keeps the phase and freezes remaining at R - E; phase and
\* remaining do not change while paused however long, and resume() alters
\* neither pausedElapsed nor pomodoroRemainingMs.
C12_PomodoroPause ==
  [][/\ (/\ pause
         /\ internalState.mode = "pomodoro"
         /\ internalState.state = "running"
         /\ internalState.startTimestamp # Null
         /\ (wall - origin) - internalState.startTimestamp[1]
              < internalState.pomodoroRemainingMs)
          => /\ internalState'.pomodoroPhase = internalState.pomodoroPhase
             /\ internalState'.pomodoroRemainingMs
                  = internalState.pomodoroRemainingMs
                    - ((wall - origin) - internalState.startTimestamp[1])
             /\ remainingMs' = internalState'.pomodoroRemainingMs
     /\ (/\ internalState.mode = "pomodoro"
         /\ internalState.state = "paused"
         /\ internalState'.state = "paused")
          => /\ internalState'.pomodoroPhase = internalState.pomodoroPhase
             /\ internalState'.pomodoroRemainingMs
                  = internalState.pomodoroRemainingMs
             /\ remainingMs' = remainingMs
     /\ (resume /\ internalState.mode = "pomodoro")
          => /\ internalState'.pausedElapsed = internalState.pausedElapsed
             /\ internalState'.pomodoroRemainingMs
                  = internalState.pomodoroRemainingMs
             /\ internalState'.pomodoroPhase = internalState.pomodoroPhase]_vars

\* A work phase started on this page was paused after ten minutes, with
\* fifteen left, and has stayed paused for five minutes or more.
C12_Witness ==
  /\ internalState.mode = "pomodoro"
  /\ internalState.state = "paused"
  /\ internalState.pomodoroPhase = "work"
  /\ ranMs = <<2 * POMODORO_BREAK_MS>>
  /\ sessionStartTimeRef # Null
  /\ wall - sessionStartTimeRef[1] > 2 * POMODORO_BREAK_MS
  /\ internalState.pomodoroRemainingMs = POMODORO_WORK_MS - 2 * POMODORO_BREAK_MS
  /\ remainingMs = internalState.pomodoroRemainingMs

\* The providers of a slot that are enabled in the configuration and whose
\* adapter is registered and available, in configured order.
C13_Candidates(slotId) ==
  LET slot == config.slots[CHOOSE i \in DOMAIN config.slots :
                             config.slots[i].id = slotId]
      Ok(p) == p \in enabledProviders /\ p \in adapters
  IN SelectSeq(slot.providers, Ok)

\* The place of provider p in the sequence seq.
C13_Place(seq, p) == CHOOSE k \in 1..Len(seq) : seq[k] = p

\* The step ends call c with a fill.
C13_FillStep(c) ==
  /\ c \in 1..Len(calls)
  /\ calls[c].pc = "await"
  /\ calls'[c].pc = "done"
  /\ slotStates'[calls[c].slotId].filled

\* C13 as stated: for a slot whose enabled and available providers are
\* [P1,P2,P3] and whose waterfall is filled by the provider at place k,
\* triggerLoad invoked load() on exactly P1..Pk, each once, in that order,
\* and the slot's final state is {loaded, filled, currentProvider Pk, no error}.
C13_WaterfallOrder ==
  [][\A c \in 1..Len(calls) :
       (C13_FillStep(c) /\ Len(C13_Candidates(calls[c].slotId)) = 3)
         => LET cands == C13_Candidates(calls[c].slotId)
                Pk == calls[c].attempts[Len(calls[c].attempts)]
                k == C13_Place(cands, Pk)
            IN /\ calls'[c].attempts = SubSeq(cands, 1, k)
               /\ slotStates'[calls[c].slotId] =
                    [loaded |-> TRUE, filled |-> TRUE,
                     currentProvider |-> <<Pk>>, error |-> <<>>]]_vars

\* C13 amended: the same holds as long as the AdSense-active flag is not set
\* when Pk fills; in any case the providers invoked are P1..Pk in that
\* order, each once, less non-AdSense providers only (those the AdSense
\* policy skipped), and the final state names Pk.
C13_WaterfallOrderUnlessAdSense ==
  [][\A c \in 1..Len(calls) :
       C13_FillStep(c)
         => LET cands == C13_Candidates(calls[c].slotId)
                tried == calls'[c].attempts
                Pk == calls[c].attempts[Len(calls[c].attempts)]
                k == C13_Place(cands, Pk)
                Tried(p) == \E j \in 1..Len(tried) : tried[j] = p
            IN /\ ~adsenseActive => tried = SubSeq(cands, 1, k)
               /\ tried = SelectSeq(SubSeq(cands, 1, k), Tried)
               /\ \A j \in 1..k : ~Tried(cands[j]) => cands[j] # "adsense"
               /\ slotStates'[calls[c].slotId] =
                    [loaded |-> TRUE, filled |-> TRUE,
                     currentProvider |-> <<Pk>>, error |-> <<>>]]_vars

\* The three providers of the leaderboard slot are enabled and available,
\* the third one filled it after the first two were tried in order.
C13_Witness ==
  /\ enabledProviders = Providers /\ adapters = Providers
  /\ \E c \in 1..Len(calls) :
       /\ calls[c].slotId = "AD_TOP_LEADERBOARD"
       /\ calls[c].pc = "done"
       /\ calls[c].attempts = <<"adsterra", "adsense", "monetag">>
  /\ slotStates["AD_TOP_LEADERBOARD"] =
       [loaded |-> TRUE, filled |-> TRUE,
        currentProvider |-> <<"monetag">>, error |-> <<>>]

\* The loads of call c that the step invokes.
C14_Invoked(c) ==
  LET old == IF c <= Len(calls) THEN Len(calls[c].attempts) ELSE 0
  IN {calls'[c].attempts[j] : j \in (old + 1)..Len(calls'[c].attempts)}

\* C14: once the AdSense-active flag is set, no step of any triggerLoad call
\* on any slot invokes load() of adsterra or monetag, waterfalls that were
\* in progress when the flag was set included.
C14_AdSenseExclusive ==
  [][\A c \in 1..Len(calls') :
       \A p \in C14_Invoked(c) :
         p \in {"adsterra", "monetag"} => ~adsenseActive]_vars

\* AdSense filled the bottom slot while the leaderboard waterfall, which had
\* already invoked adsterra, was in progress: that waterfall ended without
\* invoking monetag, enabled and available though it is.
C14_Witness ==
  /\ adsenseActive
  /\ "monetag" \in enabledProviders \cap adapters
  /\ slotStates["AD_BOTTOM"].currentProvider = <<"adsense">>
  /\ \E c \in 1..Len(calls) :
       /\ calls[c].slotId = "AD_TOP_LEADERBOARD"
       /\ calls[c].pc = "done"
       /\ calls[c].attempts = <<"adsterra", "adsense">>
       /\ slotStates["AD_TOP_LEADERBOARD"].filled = FALSE

\* The step runs triggerLoad(slotId): called directly, by registerSlot for
\* a slot that is not lazy, or by an observer's callback.
C15_TriggerLoadStep(slotId) ==
  \/ CallTriggerLoad(slotId)
  \/ (registerSlot(slotId)
        /\ (getSlotConfig(slotId) = Null \/ ~getSlotConfig(slotId)[1].lazy))
  \/ (slotId \in SlotIds /\ slotId \notin loadedSlots
        /\ \E inMap \in BOOLEAN : Intersect(slotId, inMap))

\* C15: on a mobile viewport the mobile-slot counter never exceeds
\* config.mobileSlotLimit under any interleaving of triggerLoad and
\* registerSlot calls, and a triggerLoad rejected because the counter is at
\* the limit invokes no provider and leaves the slot's state as it was.
C15_MobileSlotCap ==
  [][/\ mobileSlotCount' <= MobileSlotLimit
     /\ \A slotId \in SlotArgs :
          (/\ innerWidth < 1024
           /\ mobileSlotCount >= MobileSlotLimit
           /\ C15_TriggerLoadStep(slotId))
            => UNCHANGED <<calls, slotStates, mobileSlotCount, loadedSlots,
                           adsenseActive>>]_vars

\* Mobile, the counter at its limit: the leaderboard's observer has reported
\* it visible and is disconnected, triggerLoad was rejected and the slot is
\* as constructed.
C15_Witness ==
  /\ innerWidth < 1024
  /\ mobileSlotCount = MobileSlotLimit
  /\ loadedSlots = {"AD_BOTTOM"}
  /\ observers["AD_TOP_LEADERBOARD"] = "disconnected"
  /\ slotStates["AD_TOP_LEADERBOARD"] = loadingState
  /\ \A c \in 1..Len(calls) : calls[c].slotId = "AD_BOTTOM"

\* C16: once triggerLoad has accepted a slot, no later triggerLoad or
\* registerSlot on that slot, after any sequence of orchestrator operations
\* (unregisterSlot and destroy included), invokes a provider or increments
\* the mobile-slot counter for that slot again: a call accepted for a slot
\* that an earlier call was accepted for invokes nothing and counts nothing.
C16_NoRetrigger ==
  [][\A c \in 1..Len(calls') :
       (\E c0 \in 1..(c - 1) : calls'[c0].slotId = calls'[c].slotId)
         => /\ C14_Invoked(c) = {}
            /\ c > Len(calls) => mobileSlotCount' = mobileSlotCount]_vars

\* The step ends call c without a fill (call c may begin in this step).
C17_ExhaustStep(c) ==
  /\ c \in 1..Len(calls')
  /\ (c > Len(calls) \/ calls[c].pc = "await")
  /\ calls'[c].pc = "done"
  /\ calls'[c].index = 0

\* C17: an accepted triggerLoad that exhausts its candidates without a fill
\* leaves the slot in exactly {loaded:true, filled:false,
\* currentProvider:null, error:"All providers failed to fill"} and does not
\* change the AdSense-active flag.
C17_ExhaustedFinalState ==
  [][\A c \in 1..MaxCalls :
       C17_ExhaustStep(c)
         => /\ slotStates'[calls'[c].slotId] =
                 [loaded |-> TRUE, filled |-> FALSE, currentProvider |-> <<>>,
                  error |-> <<"All providers failed to fill">>]
            /\ adsenseActive' = adsenseActive]_vars

\* The leaderboard waterfall tried its three providers and none filled,
\* while AdSense is not active.
C17_Witness ==
  /\ ~adsenseActive
  /\ \E c \in 1..Len(calls) :
       /\ calls[c].slotId = "AD_TOP_LEADERBOARD"
       /\ calls[c].pc = "done"
       /\ calls[c].index = 0
       /\ calls[c].attempts = <<"adsterra", "adsense", "monetag">>
  /\ slotStates["AD_TOP_LEADERBOARD"].error = <<"All providers failed to fill">>

\* The places after `from` of the slot's enabled providers that the loop
\* would not skip.
C18_Rest(slotId, from) ==
  LET slot == config.slots[CHOOSE i \in DOMAIN config.slots :
                             config.slots[i].id = slotId]
      Enabled(p) == p \in enabledProviders
      providers == SelectSeq(slot.providers, Enabled)
  IN {j \in (from + 1)..Len(providers) :
        /\ providers[j] \in adapters
        /\ ~(adsenseActive /\ providers[j] # "adsense")}

C18_Provider(slotId, j) ==
  LET slot == config.slots[CHOOSE i \in DOMAIN config.slots :
                             config.slots[i].id = slotId]
      Enabled(p) == p \in enabledProviders
  IN SelectSeq(slot.providers, Enabled)[j]

C19_Terminates ==
  \A c \in 1..MaxCalls :
    (Len(calls) >= c)
      ~> (/\ Len(calls) >= c
          /\ calls[c].pc = "done"
          /\ slotStates[calls[c].slotId].loaded)

\* A call has ended, its slot is loaded, and a load() it invoked has still
\* not settled.
C19_Witness ==
  \E c \in 1..Len(calls) :
    /\ calls[c].pc = "done"
    /\ calls[c].pending # {}
    /\ slotStates[calls[c].slotId].loaded

\* C20: registerSlot on a lazy slot invokes no provider; the first report of
\* visibility triggers loading and disconnects the observer; no later
\* visibility event or registerSlot triggers a load for a slot that already
\* had one; registerSlot on a slot that is not lazy triggers loading at once.
C20_LazyLoadsOnce ==
  [][\A slotId \in SlotIds :
       LET lazy == config.slots[CHOOSE i \in DOMAIN config.slots :
                                  config.slots[i].id = slotId].lazy
           had == \E c \in 1..Len(calls) : calls[c].slotId = slotId
       IN /\ (registerSlot(slotId) /\ lazy) => calls' = calls
          /\ (registerSlot(slotId) /\ ~lazy /\ ~had)
               => (Len(calls') = Len(calls) + 1 \/ innerWidth < 1024)
          /\ \A inMap \in BOOLEAN :
               Intersect(slotId, inMap)
                 => /\ had => calls' = calls
                    /\ ~had => (/\ IF inMap
                                   THEN observers'[slotId] = "disconnected"
                                   ELSE orphans'[slotId] = orphans[slotId] - 1
                                /\ (Len(calls') = Len(calls) + 1
                                      \/ innerWidth < 1024))]_vars

\* C21: within one triggerLoad call at most one load() the call issued is in
\* flight (started and not settled) at any time, also after an earlier
\* provider hit the timeout.
C21_Serialized ==
  \A c \in 1..Len(calls) : Cardinality(calls[c].pending) <= 1

\* The step ends call c.
C22_EndStep(c) ==
  c \in 1..Len(calls) /\ calls[c].pc = "await" /\ calls'[c].pc = "done"

\* The rounds of notification a step has to make: for a call accepted in the
\* step the loading state, and for a call that ends in the step the state
\* getSlotState returns after it, each to every callback subscribed.
C22_Rounds ==
  LET round(slotId, state) ==
        IF loadCallbacks = {} THEN <<>>
        ELSE <<[slotId |-> slotId, state |-> state, to |-> loadCallbacks]>>
      n == Len(calls')
  IN IF n > Len(calls)
     THEN round(calls'[n].slotId,
                [loaded |-> FALSE, filled |-> FALSE, currentProvider |-> <<>>,
                 error |-> <<>>])
          \o (IF calls'[n].pc = "done"
              THEN round(calls'[n].slotId, slotStates'[calls'[n].slotId])
              ELSE <<>>)
     ELSE IF \E c \in 1..n : C22_EndStep(c)
     THEN LET c == CHOOSE x \in 1..n : C22_EndStep(x)
          IN round(calls[c].slotId, slotStates'[calls[c].slotId])
     ELSE <<>>

C23_VolumeClamp ==
  [][/\ audio'.volume \in 0..100
     /\ \A level \in Levels :
          DoSetVolume(level)
            => /\ audio'.volume = (IF level < 0 THEN 0
                                   ELSE IF level > 100 THEN 100 ELSE level)
               /\ setVolume(audio', audio'.volume) = audio']_vars

\* The volume was set below the range after the gain node was created: both
\* are at 0.
C23_Witness ==
  audio.volume = 0 /\ audio.gain = <<0>>

\* C24: with a playlist of length N >= 1 and the index i within it, next()
\* yields i + 1, or 0 at N - 1; previous() yields i - 1, or N - 1 at 0; next
\* then previous, and previous then next, give i again.
C24_Wraparound ==
  [][LET N == Len(playlists[audio.currentMood])
         i == audio.trackIndex
     IN (N >= 1 /\ i \in 0..(N - 1))
          => /\ DoNext => audio'.trackIndex = (IF i = N - 1 THEN 0 ELSE i + 1)
             /\ DoPrevious
                  => audio'.trackIndex = (IF i = 0 THEN N - 1 ELSE i - 1)
             /\ previous(Render(audio, next(audio))).trackIndex = i
             /\ next(Render(audio, previous(audio))).trackIndex = i]_vars

\* The last track of the three-track playlist is current while playing:
\* next() wraps from here.
C24_Witness ==
  /\ audio.currentMood = "happy"
  /\ audio.trackIndex = 2
  /\ audio.isPlaying

C26_AutoAdvance ==
  [][(TrackEnded \/ TrackError)
       => audio'.trackIndex =
            (audio.trackIndex + 1) % Len(playlists[audio.currentMood])]_vars

\* C27: whenever the source is connected, the links of the graph are exactly
\* the 8D chain if is8DEnabled and exactly the normal chain if not.
C27_Topology ==
  (\E link \in audio.links : link[1] = "source")
    => audio.links = (IF audio.is8DEnabled
                      THEN {<<"source", "gain">>, <<"gain", "panner">>,
                            <<"panner", "compressor">>,
                            <<"compressor", "destination">>}
                      ELSE {<<"source", "gain">>, <<"gain", "destination">>})

\* C28: a pan-animation callback is scheduled only while is8DEnabled and
\* isPlaying are both true, never more than one loop at a time, and the pan
\* value is 0 whenever one of the two is false.
C28_PanAnimation ==
  /\ audio.panLoops <= 1
  /\ audio.panLoops > 0 => (audio.is8DEnabled /\ audio.isPlaying)
  /\ ~(audio.is8DEnabled /\ audio.isPlaying) => audio.pan \in {<<>>, <<0>>}

\* C29: for every valid TimerSnapshot, saveTimerSnapshot followed by
\* getTimerSnapshot returns a snapshot equal to the saved one in every field,
\* and leaves it stored; clearTimerSnapshot followed by getTimerSnapshot
\* returns null.
C29_RoundTrip ==
  [][/\ \A snapshot \in Snapshots :
          CallSaveTimerSnapshot(snapshot)
            => getTimerSnapshot(timerItem') = Some(snapshot)
     /\ CallClearTimerSnapshot => getTimerSnapshot(timerItem') = Null
     /\ CallGetTimerSnapshot
          => /\ \A snapshot \in Snapshots :
                  timerItem = <<JSONstringify(snapshot)>>
                    => /\ retrieved'.result = Some(snapshot)
                       /\ timerItem' = timerItem
             /\ timerItem = <<>> => retrieved'.result = Null]_vars

\* A running pomodoro snapshot with a numeric startTimestamp was saved and
\* then read back, field for field.
C29_Witness ==
  /\ retrieved.call = "getTimerSnapshot"
  /\ retrieved.item = timerItem
  /\ retrieved.result =
       Some([state |-> "running", mode |-> "pomodoro",
             startTimestamp |-> Some(POMODORO_BREAK_MS),
             pausedElapsed |-> POMODORO_BREAK_MS, pomodoroPhase |-> "break",
             pomodoroRemainingMs |-> POMODORO_WORK_MS])

\* The stored snapshot is missing, does not parse, is not an object, or has
\* a field that is missing, of the wrong type, or not one of the permitted
\* values.
C30_MalformedSnapshot(item) ==
  \/ item = <<>>
  \/ ~item[1].json
  \/ "t" \in DOMAIN item[1]
  \/ item[1].state \notin {JStr(v) : v \in {"idle", "running", "paused", "finished"}}
  \/ item[1].mode \notin {JStr("stopwatch"), JStr("pomodoro")}
  \/ item[1].startTimestamp.t \notin {"null", "number"}
  \/ item[1].pausedElapsed.t # "number"
  \/ item[1].pomodoroPhase \notin {JStr("work"), JStr("break")}
  \/ item[1].pomodoroRemainingMs.t # "number"

C30_MalformedSession(item) ==
  \/ item = <<>>
  \/ ~item[1].json
  \/ "t" \in DOMAIN item[1]
  \/ item[1].id.t # "string"
  \/ item[1].startTime.t # "number"
  \/ item[1].endTime.t # "number"
  \/ item[1].duration.t # "number"
  \/ item[1].mode \notin {JStr("stopwatch"), JStr("pomodoro")}
  \/ item[1].completed.t # "boolean"

\* C30: with the stored snapshot missing, unparseable or of an invalid shape,
\* getTimerSnapshot returns null and removes the stored entry, and the hook
\* mounts in the default idle state; getLastSession returns null for every
\* malformed stored session.
C30_CorruptedStateSafety ==
  [][/\ (C30_MalformedSnapshot(timerItem) /\ CallGetTimerSnapshot)
          => /\ retrieved'.result = Null
             /\ timerItem' = <<>>
     /\ (C30_MalformedSnapshot(timerItem) /\ Mount)
          => /\ internalState' = DEFAULT_STATE
             /\ internalState'.state = "idle"
             /\ elapsedMs' = 0
             /\ remainingMs' = POMODORO_WORK_MS
             /\ timerItem' = <<>>
     /\ (/\ retrieved' # retrieved
         /\ retrieved'.call = "getLastSession"
         /\ C30_MalformedSession(retrieved'.item))
          => retrieved'.result = Null]_vars

\* A stored object that is a snapshot but for its mode was read: null came
\* back and the entry is gone.
C30_Witness ==
  /\ retrieved.call = "getTimerSnapshot"
  /\ retrieved.item # <<>>
  /\ retrieved.item[1].json
  /\ "t" \notin DOMAIN retrieved.item[1]
  /\ retrieved.item[1].state = JStr("idle")
  /\ retrieved.item[1].mode = JStr("bogus")
  /\ retrieved.item[1].startTimestamp = JNull
  /\ retrieved.item[1].pausedElapsed = JNum(0)
  /\ retrieved.item[1].pomodoroPhase = JStr("work")
  /\ retrieved.item[1].pomodoroRemainingMs = JNum(0)
  /\ retrieved.result = Null
  /\ timerItem = <<>>

\* C32: pausedElapsed never decreases except at stop() and reset(): no step
\* of start, pause, resume, setMode, tick or the restore on mount lowers it.
\* (A reload starts a new instance of the hook, whose state is the initial
\* one until it mounts.)
C32_PausedElapsedMonotone ==
  [][internalState'.pausedElapsed < internalState.pausedElapsed
       => (stop \/ reset \/ Reload)]_vars

\* C33: in every reachable state, restored ones included, the reported
\* elapsedMs and remainingMs are not negative, and no recorded session has a
\* negative duration.
C33_NoNegativeDuration ==
  /\ elapsedMs >= 0
  /\ remainingMs >= 0
  /\ \A k \in 1..Len(sessions) : sessions[k].duration >= 0

\* C34: mounting with a stored snapshot whose state is running gives state
\* running with startTimestamp the current clock and every other field as
\* stored, and the elapsed time reported is the stored pausedElapsed; a
\* stored snapshot in another state is restored with every field unchanged.
C34_RestoreOnMount ==
  [][(Mount /\ getTimerSnapshot(timerItem) # Null)
       => LET saved == getTimerSnapshot(timerItem)[1]
          IN IF saved.state = "running"
             THEN /\ internalState' =
                       [saved EXCEPT !.startTimestamp = Some(performanceNow)]
                  /\ elapsedMs' = saved.pausedElapsed
             ELSE internalState' = saved]_vars

\* C35: start() from finished begins the next phase with pomodoroRemainingMs
\* the full duration of that phase and with pausedElapsed 0.
C35_StartFromFinished ==
  [][(start /\ internalState.state = "finished"
            /\ internalState.mode = "pomodoro")
       => /\ internalState'.state = "running"
          /\ internalState'.pomodoroRemainingMs =
               PhaseDuration(internalState.pomodoroPhase)
          /\ internalState'.pausedElapsed = 0]_vars

\* The durations of the first n sessions recorded, summed.
RECURSIVE C37_Credited(_)
C37_Credited(n) ==
  IF n = 0 THEN 0 ELSE sessions[n].duration + C37_Credited(n - 1)

\* C37: the durations of the sessions recorded sum to no more than the time
\* the timer was running, which in turn is no more than the time passed
\* since the page was first opened.
C37_NoDoubleCredit ==
  C37_Credited(Len(sessions)) <= wall

\* C36: unregisterSlot and destroy change nothing but the observers map
\* and, for destroy, the subscribers and the loaded-slot set: mobileSlotCount,
\* the AdSense-active flag, every slot state and the calls in progress stay
\* as they are, and neither starts a load. A lazy slot that has no observer
\* in the map any more is not loaded by a visibility event.
C36_UnregisterFrame ==
  [][/\ \A slotId \in SlotArgs :
          unregisterSlot(slotId)
            => /\ UNCHANGED <<mobileSlotCount, adsenseActive, slotStates,
                              calls, loadCallbacks, loadedSlots>>
               /\ \A s \in SlotIds \ {slotId} : observers'[s] = observers[s]
     /\ destroy
          => /\ UNCHANGED <<mobileSlotCount, adsenseActive, slotStates, calls>>
             /\ loadCallbacks' = {}
             /\ loadedSlots' = {}
     /\ \A slotId \in SlotIds :
          (observers[slotId] = "none" /\ Intersect(slotId, FALSE))
            => calls' = calls]_vars

\* C39: a provider load() that settles after its timeout fired (its call no
\* longer awaits it) changes no slot state, does not set the AdSense-active
\* flag and notifies no subscriber; only the bookkeeping of the promise
\* itself goes away.
C39_LateLoadIgnored ==
  [][\A c \in 1..MaxCalls :
       (/\ c <= Len(calls)
        /\ calls' # calls
        /\ \E p \in calls[c].pending :
             /\ ~(calls[c].pc = "await" /\ Awaited(calls[c]) = p)
             /\ \E result \in {"true", "false", "error"} : LoadSettles(c, p, result))
         => /\ UNCHANGED <<slotStates, adsenseActive, loadCallbacks, loadedSlots,
                           mobileSlotCount, observers>>
            /\ notified' = <<>>
            /\ \A d \in 1..Len(calls) :
                 [calls'[d] EXCEPT !.pending = {}] = [calls[d] EXCEPT !.pending = {}]]_vars

\* A load() resolved true after its timeout while subscribers listen: the
\* slot it was tried for is not filled by it and the AdSense flag is unset.
C39_Witness ==
  /\ lateSettled.last = Some("true")
  /\ loadCallbacks # {}
  /\ ~adsenseActive
  /\ \E c \in 1..Len(calls) :
       /\ calls[c].pc = "await"
       /\ Len(calls[c].attempts) >= 2
       /\ calls[c].pending = {Awaited(calls[c])}
       /\ slotStates[calls[c].slotId] = loadingState

\* C40: no slot is filled by adsense while another slot is filled by
\* adsterra or monetag.
C40_NoMixedFill ==
  \A s \in SlotIds, t \in SlotIds :
    ~(/\ slotStates[s].filled
      /\ slotStates[s].currentProvider = Some("adsense")
      /\ slotStates[t].filled
      /\ slotStates[t].currentProvider \in {Some("adsterra"), Some("monetag")})

\* C38: with playlists of three tracks or more, trackIndex stays inside the
\* playlist of the current mood, so currentTrack is never null.
C38_TrackIndexInRange ==
  /\ 0 <= audio.trackIndex
  /\ audio.trackIndex < Len(playlist(audio))

\* The sum of the durations of the sessions of a list.
RECURSIVE C31_Sum(_)
C31_Sum(items) ==
  IF items = <<>> THEN 0
  ELSE items[1].duration.v + C31_Sum(Tail(items))

\* Each date's totalFocusMs is the sum of the durations in its list and its
\* sessionCount the length of the list.
C31_Consistent ==
  \A date \in Dates :
    LET stats == getStatsForDate(dailyStatsItem, date)
    IN /\ stats.totalFocusMs.v = C31_Sum(stats.sessions.items)
       /\ stats.sessionCount.v = Len(stats.sessions.items)

\* C31: recording a session of duration D for a date adds D to that date's
\* totalFocusMs, 1 to its sessionCount and the session to the end of its
\* list, and changes the stats of no other date; after any recordings each
\* date's totalFocusMs is the sum of the durations in its list and its
\* sessionCount the length of the list.
C31_DailyStatsAdditivity ==
  /\ []C31_Consistent
  /\ [][\A date \in Dates, session \in RecordedSessions :
          saveSessionForDate(session, date)
            => LET before == getStatsForDate(dailyStatsItem, date)
                   after == getStatsForDate(dailyStatsItem', date)
               IN /\ after.totalFocusMs = JNum(before.totalFocusMs.v + session.duration)
                  /\ after.sessionCount = JNum(before.sessionCount.v + 1)
                  /\ after.sessions.items =
                       Append(before.sessions.items, JSONstringifySession(session))
                  /\ after.date = before.date
                  /\ \A other \in Dates \ {date} :
                       getStatsForDate(dailyStatsItem', other)
                         = getStatsForDate(dailyStatsItem, other)]_vars

\* Two sessions of different durations are recorded for one date and one
\* session for the other.
C31_Witness ==
  \E date \in Dates, other \in Dates :
    /\ date # other
    /\ getStatsForDate(dailyStatsItem, date).sessionCount = JNum(2)
    /\ getStatsForDate(dailyStatsItem, date).totalFocusMs
         = JNum(POMODORO_WORK_MS + POMODORO_BREAK_MS)
    /\ getStatsForDate(dailyStatsItem, other).sessionCount = JNum(1)
    /\ getStatsForDate(dailyStatsItem, other).totalFocusMs = JNum(POMODORO_WORK_MS)

====
